----------------------------- MODULE MCWebSearch -----------------------------
(* Two requests, one with the pages of one domain only.                    *)
EXTENDS WebSearch

Example == <<"example", ".", "com">>
Page(id, host) == [page |-> id, spelling |-> "plain", host |-> host]
Docs == Page("docs", <<"docs", ".">> \o Example)
MCUrls ==
  {Docs, [Docs EXCEPT !.spelling = "SHOUTED"],
   Page("other", <<"not">> \o Example), Page("no host", <<>>)}
MCAnswers == {{Docs, Page("other", <<"not">> \o Example)}}

Setup(profile, allowed) ==
  [enabled |-> TRUE, tools |-> 1, profile |-> profile, client |-> TRUE, allowed |-> allowed]
MCSetups ==
  {Setup("exa_mcp", {}), Setup("exa_mcp", {<<".">> \o Example}),
   Setup("duckduckgo_plus_fetch", {Example, <<>>}),
   [Setup("exa_mcp", {}) EXCEPT !.tools = 2], [Setup("exa_mcp", {}) EXCEPT !.enabled = FALSE]}

MCTexts == {<<>>, <<"a", "A", "a", "b", "a">>, <<"b", "sz", "a">>}
MCPatterns == {<<"A">>, <<"a", "a">>}
Interchangeable == Permutations(Requests) \cup Permutations(Slots)

=============================================================================
