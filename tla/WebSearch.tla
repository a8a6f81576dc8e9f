------------------------------ MODULE WebSearch ------------------------------
(***************************************************************************)
(* The web_search tool: search, open a page, find in a page                *)
(* (tools/web_search/).  A request has an executor with a page cache of    *)
(* its own.  The model calls the tool in rounds: the calls of one round    *)
(* run at the same time, each from its answer's await on, and the next     *)
(* round begins when all of them have answered.                            *)
(*                                                                         *)
(* A URL is its page, the spelling of its parts that do not matter, and    *)
(* its host; a host, a domain and a text are sequences of short strings.   *)
(* Titles, snippets of results, the hints a search backend ignores and the *)
(* order of the results are left out.                                      *)
(***************************************************************************)
EXTENDS SequencesExt

CONSTANTS Requests,
          Slots,          \* the calls of one round
          Setups,         \* [enabled, tools, profile, client, allowed]
          Urls, Patterns,
          Answers,        \* the sets of URLs a search may bring
          Texts,          \* the texts a page may have
          CONTEXT,        \* the characters shown around a match
          MaxCalls        \* bound: calls of all requests

NoText == <<"none">>
NoUrl == [page |-> "none", spelling |-> "plain", host |-> <<>>]

VARIABLES setup, phase, round, calls, page_cache,
          made,   \* the calls made so far
          opened  \* history: what open_page answered, and in which round
searchVars == <<setup, phase, round, calls, page_cache, made, opened>>
------------------------------------------------------------------------------
(* URLs.                                                                   *)
canonicalize_url(url) == [url EXCEPT !.spelling = "plain"]
url_hostname(url) == canonicalize_url(url).host

WithoutDots(domain) ==
  LET kept == {i \in DOMAIN domain : domain[i] # "."}
  IN IF kept = {} THEN <<>> ELSE SubSeq(domain, Min(kept), Len(domain))

is_url_allowed(url, allowed_domains) ==
  \/ allowed_domains = {}
  \/ /\ url_hostname(url) # <<>>
     /\ \E domain \in allowed_domains :
          LET normalized == WithoutDots(domain) IN
          \/ url_hostname(url) = normalized
          \/ IsSuffix(<<".">> \o normalized, url_hostname(url))

Keys == {canonicalize_url(url) : url \in Urls}

(* A URL that is given is not the absent one.                              *)
ASSUME UrlsAssumption == NoUrl \notin Keys
ASSUME TextsAssumption ==
  /\ CONTEXT \in Nat
  /\ \A text \in Texts \cup Patterns : text \in Seq(Range(text))

(* Mutant: a page is looked up as the model spells its URL.                *)
GetVerbatim(q, url) == IF url \in Keys THEN page_cache[q][url] ELSE NoText

get(q, url) == page_cache[q][canonicalize_url(url)]
put(q, url, text) == page_cache' = [page_cache EXCEPT ![q][canonicalize_url(url)] = text]
------------------------------------------------------------------------------
(* A search in a text: the matches of the pattern, whatever its case, from *)
(* left to right.  Positions are those of the folded text.                 *)
casefold(text) ==
  FlattenSeq([i \in DOMAIN text |->
    CASE text[i] = "A" -> <<"a">> [] text[i] = "sz" -> <<"s", "s">> [] OTHER -> <<text[i]>>])
Least(a, b) == IF a < b THEN a ELSE b
Snippet(text, start, end) ==
  SubSeq(text, (IF start < CONTEXT THEN 0 ELSE start - CONTEXT) + 1, Least(Len(text), end + CONTEXT))

(* Mutant: the search goes on one character too late.                      *)
AfterGap(start, pattern) == start + Len(pattern) + 1
Resume(start, pattern) == start + Len(pattern)

Matches(text, pattern) ==
  LET haystack == casefold(text)
      needle == casefold(pattern)
      hits(i) == {p \in i..(Len(haystack) - Len(needle)) :
                    SubSeq(haystack, p + 1, p + Len(needle)) = needle}
      from[i \in 0..(Len(haystack) + Len(pattern) + 1)] ==
        IF hits(i) = {} THEN <<>>
        ELSE LET pos == Min(hits(i))
                 end == pos + Len(pattern)
             IN <<[start |-> pos, end |-> end, text |-> Snippet(text, pos, end)]>>
                  \o from[Resume(pos, pattern)]
  IN from[0]
------------------------------------------------------------------------------
(* The calls.  "raised" is an exception that leaves the tool.              *)
Result == [ok |-> FALSE, urls |-> {}, text |-> NoText, matches |-> <<>>]
Idle == [action |-> "none", url |-> NoUrl, pattern |-> <<>>, state |-> "idle", result |-> Result]

normalize_action_request(action, url, pattern) ==
  CASE action # "none" -> action
    [] action = "none" /\ pattern # <<>> -> "find_in_page"
    [] action = "none" /\ pattern = <<>> /\ url # NoUrl -> "open_page"
    [] OTHER -> "search"

build_web_search_tool_runtime(s) ==
  CASE ~s.enabled \/ s.tools = 0 -> "unused"
    [] s.enabled /\ s.tools = 1 /\ s.profile # "none" /\ s.client -> "running"
    [] OTHER -> "refused"

SearchInit ==
  /\ setup \in [Requests -> Setups]
  /\ phase = [q \in Requests |-> "starting"]
  /\ round = [q \in Requests |-> 1]
  /\ calls = [q \in Requests |-> [s \in Slots |-> Idle]]
  /\ page_cache = [q \in Requests |-> [key \in Keys |-> NoText]]
  /\ made = 0 /\ opened = [q \in Requests |-> {}]

Begin(q) ==
  /\ phase[q] = "starting"
  /\ phase' = [phase EXCEPT ![q] = build_web_search_tool_runtime(setup[q])]
  /\ UNCHANGED <<setup, round, calls, page_cache, made, opened>>

Allowed(q, url) == is_url_allowed(url, setup[q].allowed)

_find_in_page_result(q, url, pattern) ==
  IF url = NoUrl \/ pattern = <<>> \/ ~Allowed(q, url) THEN Result
  ELSE IF get(q, url) = NoText THEN [Result EXCEPT !.urls = {canonicalize_url(url)}]
  ELSE [Result EXCEPT !.ok = TRUE, !.urls = {canonicalize_url(url)}, !.text = get(q, url),
                      !.matches = Matches(get(q, url), pattern)]

(* What has nothing to wait for is answered at once.                       *)
CallTool(q, s) ==
  /\ phase[q] = "running" /\ calls[q][s] = Idle
  /\ made < MaxCalls /\ made' = made + 1
  /\ \E url \in Urls \cup {NoUrl}, pattern \in Patterns \cup {<<>>},
        given \in {"none", "search", "open_page", "find_in_page"} :
       LET action == normalize_action_request(given, url, pattern)
           refused == action = "open_page" /\ (url = NoUrl \/ ~Allowed(q, url))
           asked == [Idle EXCEPT !.action = action]
       IN calls' = [calls EXCEPT ![q][s] =
            CASE action = "find_in_page" ->
                   [asked EXCEPT !.url = url, !.pattern = pattern, !.state = "done",
                                 !.result = _find_in_page_result(q, url, pattern)]
              [] refused -> [asked EXCEPT !.url = url, !.state = "done"]
              [] action = "open_page" /\ ~refused -> [asked EXCEPT !.url = url, !.state = "waiting"]
              [] action = "search" -> [asked EXCEPT !.state = "waiting"]]
  /\ UNCHANGED <<setup, phase, round, page_cache, opened>>

AnswerCall(q, s, result) ==
  calls' = [calls EXCEPT ![q][s].state = "done", ![q][s].result = result]
Waiting(q, s, action) ==
  phase[q] = "running" /\ calls[q][s].action = action /\ calls[q][s].state = "waiting"

(* Both backends: what is found is filtered again by the gateway.          *)
SearchAnswers(q, s) ==
  /\ Waiting(q, s, "search")
  /\ \/ \E found \in Answers :
          LET results == {canonicalize_url(url) : url \in found}
          IN AnswerCall(q, s, [Result EXCEPT !.ok = TRUE, !.urls = {url \in results : Allowed(q, url)}])
     \/ AnswerCall(q, s, Result)
  /\ UNCHANGED <<setup, phase, round, page_cache, made, opened>>

(* exa gives no text for an empty page, fetch an empty one.                *)
PageText(q, text) == IF text = <<>> /\ setup[q].profile = "exa_mcp" THEN NoText ELSE text
PageAnswers(q, s) ==
  LET url == canonicalize_url(calls[q][s].url) IN
  /\ Waiting(q, s, "open_page")
  /\ \/ \E text \in Texts :
          LET shown == PageText(q, text) IN
          /\ AnswerCall(q, s, [Result EXCEPT !.ok = TRUE, !.urls = {url}, !.text = shown])
          /\ IF shown # NoText
               THEN /\ put(q, url, shown)
                    /\ opened' = [opened EXCEPT ![q] =
                         @ \cup {[round |-> round[q], url |-> url, text |-> shown]}]
               ELSE UNCHANGED <<page_cache, opened>>
     \/ /\ AnswerCall(q, s, [Result EXCEPT !.urls = {url}])
        /\ UNCHANGED <<page_cache, opened>>
  /\ UNCHANGED <<setup, phase, round, made>>

(* An exception nothing catches ends the run with all its calls: the MCP   *)
(* runtime misses the tool, or a URL is malformed, which urlsplit refuses  *)
(* wherever it is looked at first -- in a call, before its page was asked  *)
(* for or after, and in what a search found.                               *)
ToolRaises(q, s) ==
  /\ phase[q] = "running" /\ calls[q][s].state \in {"idle", "waiting"}
  /\ phase' = [phase EXCEPT ![q] = "failed"]
  /\ UNCHANGED <<setup, round, calls, page_cache, made, opened>>

NextRound(q) ==
  /\ phase[q] = "running" /\ made < MaxCalls
  /\ \E s \in Slots : calls[q][s] # Idle
  /\ \A s \in Slots : calls[q][s].state # "waiting"
  /\ round' = [round EXCEPT ![q] = @ + 1]
  /\ calls' = [calls EXCEPT ![q] = [s \in Slots |-> Idle]]
  /\ UNCHANGED <<setup, phase, page_cache, made, opened>>

SearchNext ==
  \E q \in Requests :
    \/ Begin(q) \/ NextRound(q)
    \/ \E s \in Slots : CallTool(q, s) \/ SearchAnswers(q, s) \/ PageAnswers(q, s) \/ ToolRaises(q, s)
SearchSpec == SearchInit /\ [][SearchNext]_searchVars
------------------------------------------------------------------------------
Done(q, s) == calls[q][s].state = "done"
Before(q, n, url) == {o \in opened[q] : o.round < n /\ o.url = canonicalize_url(url)}

(***************************************************************************)
(* A page that was opened with a text in an earlier round of the same      *)
(* request is found under any spelling of its URL, with the text of the    *)
(* latest round that opened it or one this round brought; and what is      *)
(* found is a page the request itself has opened.                          *)
(***************************************************************************)
FindsWhatWasOpened ==
  \A q \in Requests, s \in Slots :
    Done(q, s) /\ calls[q][s].action = "find_in_page" /\ calls[q][s].pattern # <<>> =>
      LET call == calls[q][s]
          earlier == Before(q, round[q], call.url)
          latest == {o \in earlier : \A p \in earlier : p.round <= o.round}
          now == {o \in opened[q] : o.round = round[q] /\ o.url = canonicalize_url(call.url)}
      IN /\ earlier # {} => call.result.ok
         /\ call.result.ok => call.result.text \in {o.text : o \in latest \cup now}

(***************************************************************************)
(* In a text whose folding keeps its length, the matches reported are      *)
(* occurrences, shown with the text around them, no two overlap, and       *)
(* every other occurrence overlaps one of them.                            *)
(***************************************************************************)
FindsEveryMatch ==
  \A q \in Requests, s \in Slots :
    LET found == calls[q][s].result.matches
        text == calls[q][s].result.text
        pattern == calls[q][s].pattern
        occurs(i) == SubSeq(casefold(text), i + 1, i + Len(pattern)) = casefold(pattern)
    IN Done(q, s) /\ calls[q][s].action = "find_in_page" /\ calls[q][s].result.ok
         /\ Len(casefold(text)) = Len(text) /\ Len(casefold(pattern)) = Len(pattern) =>
       /\ \A m \in ToSet(found) :
            occurs(m.start) /\ \E i \in 0..Len(m.text) :
              SubSeq(casefold(m.text), i + 1, i + Len(pattern)) = casefold(pattern)
       /\ \A i, j \in DOMAIN found : i < j => found[i].end <= found[j].start
       /\ \A i \in 0..(Len(text) - Len(pattern)) :
            occurs(i) => \E m \in ToSet(found) : i < m.end /\ m.start < i + Len(pattern)

=============================================================================
