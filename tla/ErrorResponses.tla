--------------------------- MODULE ErrorResponses ---------------------------
(***************************************************************************)
(* What the gateway answers for an exception: the classes of               *)
(* utils/exceptions.py and the handlers of utils/handlers.py.  Of an       *)
(* exception only what the handlers look at is kept: its class, the status *)
(* it carries, whether a database names a UNIQUE constraint, and after how *)
(* long to retry.  Messages, details and log lines are left out.           *)
(***************************************************************************)
EXTENDS Naturals, Sequences

Exception(class) == [class |-> class, status |-> 0, unique |-> FALSE, retry_after |-> 0]
WithStatus(class, status) == [Exception(class) EXCEPT !.status = status]

(* The classes of the gateway and what each is derived from.               *)
VRExceptions ==
  {"AuthorizationError", "ExternalAuthError", "ForbiddenError", "UpgradeTierError",
   "BudgetExceededError", "InsufficientCreditsError", "ResourceNotFoundError",
   "MethodNotAllowedError", "ResourceExistsError", "UnsupportedMediaTypeError", "BadInputError",
   "ContextOverflowError", "UnexpectedError", "RateLimitExceedError", "UnavailableError",
   "ServerBusyError", "ModelOverloadError"}
Bases(class) ==
  {class}
    \cup (IF class = "ModelCapabilityError" THEN {"BadInputError", "VRException"} ELSE {})
    \cup (IF class \in VRExceptions \cup {"ResponsesAPIError"} THEN {"VRException"} ELSE {})
IsInstance(e, classes) == Bases(e.class) \cap classes # {}

(* An answer: its status, the layout of its body, the short name of the    *)
(* error and the value of Retry-After, 0 for none.                         *)
make_response(status, error, retry_after) ==
  [status |-> status, body |-> "object", error |-> error, retry_after |-> retry_after]
make_openai_error_response(e) ==
  [status |-> e.status, body |-> "openai", error |-> "invalid_request_error", retry_after |-> 0]
_request_validation_exc_handler ==
  [status |-> 422, body |-> "object", error |-> "validation_error", retry_after |-> 0]
path_not_found_handler == make_response(404, "http_error", 0)

(* The tests of exception_handler, in their order.                         *)
Row(classes, status, error) == [classes |-> classes, status |-> status, error |-> error]
AccessRows ==
  <<Row({"AuthorizationError"}, 401, "unauthorized"),
    Row({"ExternalAuthError"}, 401, "external_authentication_failed"),
    Row({"PermissionError"}, 403, "resource_protected"),
    Row({"ForbiddenError"}, 403, "forbidden"),
    Row({"UpgradeTierError"}, 403, "upgrade_tier"),
    Row({"InsufficientCreditsError"}, 403, "insufficient_credits"),
    Row({"BudgetExceededError"}, 403, "budget_exceeded")>>
RequestRows ==
  <<Row({"ResourceNotFoundError", "FileNotFoundError"}, 404, "resource_not_found"),
    Row({"MethodNotAllowedError"}, 405, "method_not_allowed"),
    Row({"ResourceExistsError", "FileExistsError"}, 409, "resource_exists"),
    Row({"UnsupportedMediaTypeError"}, 415, "unsupported_media_type"),
    Row({"BadInputError"}, 422, "bad_input"),
    Row({"ContextOverflowError"}, 422, "context_overflow")>>
CapacityRows ==
  <<Row({"RateLimitExceedError"}, 429, "rate_limit_exceeded"),
    Row({"UnavailableError"}, 501, "not_implemented"),
    Row({"ServerBusyError"}, 503, "busy"),
    Row({"ModelOverloadError"}, 503, "busy")>>
Rows == AccessRows \o RequestRows \o CapacityRows

RetryAfter(e) ==
  CASE e.class = "RateLimitExceedError" -> IF e.retry_after = 0 THEN 30 ELSE e.retry_after
    [] e.class \in {"ServerBusyError", "ModelOverloadError"} -> 30
    [] OTHER -> 0

Unexpected == make_response(500, "unexpected_error", 0)

Fallback(e) ==
  IF e.class = "HTTPException" THEN make_response(e.status, "http_error", 0)
  ELSE IF e.class = "IntegrityError" /\ e.unique THEN make_response(409, "resource_exists", 0)
  ELSE Unexpected

exception_handler(e) ==
  LET hits == {i \in DOMAIN Rows : IsInstance(e, Rows[i].classes)}
  IN IF IsInstance(e, {"RequestValidationError"}) THEN _request_validation_exc_handler
     ELSE IF IsInstance(e, {"ResponsesAPIError"}) THEN make_openai_error_response(e)
     ELSE IF hits # {} THEN
       LET row == Rows[CHOOSE i \in hits : \A j \in hits : i <= j]
       IN make_response(row.status, row.error, RetryAfter(e))
     ELSE Fallback(e)

=============================================================================
