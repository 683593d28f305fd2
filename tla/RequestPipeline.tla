-------------------------- MODULE RequestPipeline --------------------------
(***************************************************************************)
(* The way of a request through the application and back: RequestIdMiddle- *)
(* ware, validation of the body, the rate limiter, the endpoint with its   *)
(* password hashing, and what becomes of exceptions (src/main.py,          *)
(* src/core/middleware.py, src/core/security.py, src/auth/utils.py,        *)
(* src/auth/schemas/auth.py, src/auth/router.py).                          *)
(*                                                                         *)
(* Requests run beside each other, each in a task with a context of its    *)
(* own.  All of them are about one email address; tokens and cookies are   *)
(* good or not, as it happens (Auth says when).                            *)
(***************************************************************************)
EXTENDS Naturals, FiniteSets

CONSTANTS
  Requests,
  Passwords,  \* records of characters, UTF-8 bytes and character classes
  Inbound,    \* values of an X-Request-ID header
  None        \* no header, no row, no password_hash, nothing bound

Classes == {"upper", "lower", "digit", "special"}
PasswordRecord == [chars : Nat, bytes : Nat, classes : SUBSET Classes, id : Nat]
ASSUME PasswordsAssumption == Passwords \subseteq PasswordRecord
ASSUME NoneAssumption == None \notin Passwords \cup Inbound \cup Requests
ASSUME NoRowAssumption ==
  None \notin [password_hash : {None} \cup Passwords, is_email_verified : BOOLEAN]

VARIABLES
  at,       \* how far each request has come
  call,     \* its endpoint and what it carries
  inbound,  \* its X-Request-ID header
  context,  \* request_id bound in its context
  result,   \* the status its endpoint returned, or the exception it raised
  answer,   \* status and X-Request-ID of the response
  lines,    \* log lines, with the request_id merge_contextvars gave them
  account   \* the users row of the address

vars == <<at, call, inbound, context, result, answer, lines, account>>

-----------------------------------------------------------------------------
(* Passwords *)

(* Mutant: len(val) instead of len(val.encode("utf-8")).                  *)
StrengthOfCharacters(p) == p.chars \in 8..72 /\ p.classes = Classes
validate_password_strength(p) ==
  p.bytes <= 72 /\ p.chars >= 8 /\ p.classes = Classes

(* Field(min_length=8, max_length=72) *)
PasswordField(p) == p.chars \in 8..72

(* bcrypt 5 raises ValueError for more than 72 bytes, to hash and to check. *)
BcryptTakes(p) == p.bytes <= 72
hash_password(p) == p
verify_password(p, hash) == p = hash

-----------------------------------------------------------------------------
(* Endpoints *)

PasswordEndpoints == {"signup", "reset_password", "login"}
BodyEndpoints ==
  PasswordEndpoints \cup {"verify_email", "resend_verification", "forgot_password"}
UnlimitedEndpoints == {"logout", "me", "health"}
Endpoints ==
  BodyEndpoints \cup UnlimitedEndpoints \cup {"refresh", "google_login", "google_callback"}
StatelessEndpoints == {"health", "google_login"}
GoogleEndpoints == {"google_login", "google_callback"}

(* A call's other fields are well formed or not, and its token, cookie or   *)
(* code is good or not.                                                     *)
Call(endpoint, p, confirm, formed, good) ==
  [endpoint |-> endpoint, password |-> p, confirm |-> confirm,
   formed |-> formed, good |-> good]
Calls ==
  {Call(e, p, p, formed, TRUE) :
     e \in {"signup", "login"}, p \in Passwords, formed \in BOOLEAN}
  \cup {Call("reset_password", p, q, TRUE, good) :
          p \in Passwords, q \in Passwords, good \in BOOLEAN}
  \cup {Call(e, None, None, formed, good) :
          e \in Endpoints \ PasswordEndpoints, formed \in BOOLEAN, good \in BOOLEAN}

(* SignupRequest, ResetPasswordRequest, LoginRequest and the others.        *)
Valid(c) ==
  /\ c.endpoint \in BodyEndpoints => c.formed
  /\ c.endpoint \in {"signup", "reset_password"} =>
       PasswordField(c.password) /\ validate_password_strength(c.password)
  /\ c.endpoint = "reset_password" => c.password = c.confirm
  /\ c.endpoint = "login" => c.password.chars >= 1

(* What an endpoint that does not touch the password of the account answers.*)
Statuses(c) ==
  CASE c.endpoint = "refresh"  -> IF c.good THEN 200 ELSE 401
    [] c.endpoint = "logout"   -> 204
    [] c.endpoint = "me"       -> IF c.good THEN 200 ELSE 401
    [] c.endpoint = "verify_email" -> IF c.good THEN 200 ELSE 400
    [] c.endpoint \in {"resend_verification", "forgot_password"} -> 202
    [] c.endpoint = "google_login" -> IF c.good THEN 302 ELSE 503
    [] c.endpoint = "google_callback" -> 302
    [] c.endpoint = "health"   -> 200

Returns(r, status) ==
  /\ result' = [result EXCEPT ![r] = [status |-> status, exc |-> None]]
  /\ at' = [at EXCEPT ![r] = "returned"]
  /\ UNCHANGED <<call, inbound, context, answer>>
Raises(r, exc) ==
  /\ result' = [result EXCEPT ![r] = [status |-> 500, exc |-> exc]]
  /\ at' = [at EXCEPT ![r] = "raised"]
  /\ UNCHANGED <<call, inbound, context, answer>>

-----------------------------------------------------------------------------
(* Middleware *)

Receive(r, c, header) ==
  /\ at[r] = "none"
  /\ at' = [at EXCEPT ![r] = "received"]
  /\ call' = [call EXCEPT ![r] = c]
  /\ inbound' = [inbound EXCEPT ![r] = header]
  /\ UNCHANGED <<context, result, answer, lines, account>>

(* The inbound header, or a fresh UUID: the request's own name stands for   *)
(* it.                                                                      *)
RequestId(r) == IF inbound[r] # None THEN inbound[r] ELSE r

(* Mutant: bound in a context all requests share.                         *)
BindShared(r) == [x \in Requests |-> RequestId(r)]
bind_contextvars(r) == [context EXCEPT ![r] = RequestId(r)]
Line(r, event) == [by |-> r, event |-> event, request_id |-> context[r]]

Dispatch(r) ==
  /\ at[r] = "received"
  /\ at' = [at EXCEPT ![r] = "bound"]
  /\ context' = bind_contextvars(r)
  /\ UNCHANGED <<call, inbound, result, answer, lines, account>>

(* RequestValidationError is answered inside the middleware.                *)
Validate(r) ==
  /\ at[r] = "bound"
  /\ IF Valid(call[r])
     THEN /\ at' = [at EXCEPT ![r] = "valid"]
          /\ UNCHANGED <<call, inbound, context, result, answer>>
     ELSE Returns(r, 422)
  /\ UNCHANGED <<lines, account>>

(* So is RateLimitExceeded.                                                 *)
Limit(r) ==
  /\ at[r] = "valid"
  /\ call[r].endpoint \notin UnlimitedEndpoints
  /\ Returns(r, 429)
  /\ lines' = lines \cup {Line(r, "rate_limit.exceeded")}
  /\ UNCHANGED account

Serving(r, endpoint) == at[r] = "valid" /\ call[r].endpoint = endpoint

(* Hashing or checking a password raises before anything is written.        *)
PasswordRaises(r) ==
  /\ ~BcryptTakes(call[r].password)
  /\ Raises(r, "ValueError")
  /\ UNCHANGED <<lines, account>>

HasPassword == account # None /\ account.password_hash # None

(* What a call commits of the account: signup makes it, a reset changes its *)
(* password, a mailed link or Google verifies its address, and a first      *)
(* Google login makes one without a password.                               *)
Verifies(c) ==
  /\ c.good
  /\ \/ c.endpoint = "google_callback"
     \/ c.endpoint = "verify_email" /\ account # None
Committed(c) ==
  CASE c.endpoint = "signup" /\ account = None /\ BcryptTakes(c.password) ->
         [password_hash |-> hash_password(c.password), is_email_verified |-> FALSE]
    [] c.endpoint = "reset_password" /\ c.good /\ account # None /\ BcryptTakes(c.password) ->
         [account EXCEPT !.password_hash = hash_password(c.password)]
    [] Verifies(c) /\ account = None -> [password_hash |-> None, is_email_verified |-> TRUE]
    [] Verifies(c) /\ account # None -> [account EXCEPT !.is_email_verified = TRUE]
    [] OTHER -> account

(* The endpoint's own line: "auth" stands for auth.signup, auth.login.failed *)
(* and the others.                                                          *)
Logged(r) == lines \cup {Line(r, "auth")}

(* signup: create_user                                                      *)
signup(r) ==
  /\ Serving(r, "signup")
  /\ \/ PasswordRaises(r)
     \/ /\ BcryptTakes(call[r].password)
        /\ Returns(r, IF account = None THEN 201 ELSE 409)
        /\ account' = Committed(call[r])
        /\ lines' = Logged(r)

(* login: authenticate                                                      *)
Authenticate(p) ==
  CASE ~HasPassword -> 401
    [] HasPassword /\ ~verify_password(p, account.password_hash) -> 401
    [] OTHER -> IF account.is_email_verified THEN 200 ELSE 403
login(r) ==
  /\ Serving(r, "login")
  /\ \/ HasPassword /\ PasswordRaises(r)
     \/ /\ HasPassword => BcryptTakes(call[r].password)
        /\ Returns(r, Authenticate(call[r].password))
        /\ lines' = Logged(r)
        /\ UNCHANGED account

reset_password(r) ==
  LET found == call[r].good /\ account # None IN
  /\ Serving(r, "reset_password")
  /\ \/ ~found /\ Returns(r, 400) /\ UNCHANGED <<lines, account>>
     \/ found /\ PasswordRaises(r)
     \/ /\ found /\ BcryptTakes(call[r].password)
        /\ Returns(r, 204)
        /\ account' = Committed(call[r])
        /\ lines' = Logged(r)

(* The others.  A good cookie, access token or link is one of the account.  *)
OfAccount == {"refresh", "me", "verify_email"}
Logs(c) ==
  \/ c.good /\ c.endpoint \in {"refresh", "verify_email", "google_callback"}
  \/ c.endpoint = "forgot_password" /\ account # None
  \/ c.endpoint = "resend_verification" /\ account # None /\ ~account.is_email_verified
Serve(r) ==
  /\ at[r] = "valid"
  /\ call[r].endpoint \notin PasswordEndpoints
  /\ call[r].endpoint \in OfAccount /\ call[r].good => account # None
  /\ Returns(r, Statuses(call[r]))
  /\ account' = Committed(call[r])
  /\ lines' = IF Logs(call[r]) THEN Logged(r) ELSE lines

(* The database cannot be reached, or a statement fails.  What has been     *)
(* committed stays: signup and Google's callback commit the account, log it *)
(* and then commit a token, and login logs before it commits one.           *)
TokenFollows(c) ==
  \/ c.endpoint = "signup" /\ account = None
  \/ c.endpoint = "login" /\ Authenticate(c.password) = 200
  \/ c.endpoint = "google_callback" /\ c.good
DatabaseError(r) ==
  /\ at[r] = "valid"
  /\ call[r].endpoint \notin StatelessEndpoints
  /\ Raises(r, "DBAPIError")
  /\ \/ UNCHANGED <<lines, account>>
     \/ account' = Committed(call[r]) /\ UNCHANGED lines
     \/ /\ TokenFollows(call[r])
        /\ account' = Committed(call[r])
        /\ lines' = Logged(r)

(* Google cannot be reached: authorize_redirect wants its metadata,         *)
(* authorize_access_token its answer.                                       *)
GoogleError(r) ==
  /\ at[r] = "valid"
  /\ call[r].endpoint \in GoogleEndpoints
  /\ call[r].endpoint = "google_login" => call[r].good
  /\ Raises(r, "HTTPError")
  /\ UNCHANGED <<lines, account>>

(* Back in the middleware: the access line, and the header.                 *)
Stamp(r) ==
  /\ at[r] = "returned"
  /\ lines' = lines \cup {Line(r, "request")}
  /\ answer' = [answer EXCEPT ![r] = [status |-> result[r].status, request_id |-> RequestId(r)]]
  /\ at' = [at EXCEPT ![r] = "answered"]
  /\ UNCHANGED <<call, inbound, context, result, account>>

(* An exception passes through, logged, and comes to the handler of         *)
(* ServerErrorMiddleware.                                                   *)
(* Mutant: no `except Exception` in the middleware.                       *)
PassUnlogged(r) ==
  /\ at[r] = "raised"
  /\ at' = [at EXCEPT ![r] = "unhandled"]
  /\ UNCHANGED <<call, inbound, context, result, answer, lines, account>>
Raise(r) ==
  /\ at[r] = "raised"
  /\ lines' = lines \cup {Line(r, "request.failed")}
  /\ at' = [at EXCEPT ![r] = "unhandled"]
  /\ UNCHANGED <<call, inbound, context, result, answer, account>>

(* add_request_id_to_errors hands it to http_exception_handler, which looks *)
(* for a status_code only an HTTPException has: the handler raises as well, *)
(* and the server answers in its place.                                     *)
HTTPExceptions == {"HTTPException"}
add_request_id_to_errors(r) ==
  /\ at[r] = "unhandled"
  /\ answer' = [answer EXCEPT ![r] =
       [status |-> 500,
        request_id |-> IF result[r].exc \in HTTPExceptions THEN context[r] ELSE None]]
  /\ at' = [at EXCEPT ![r] = "answered"]
  /\ UNCHANGED <<call, inbound, context, result, lines, account>>

(* The mail an endpoint queued runs in the request's context, after the     *)
(* response.                                                                *)
MailFailed(r) ==
  /\ at[r] = "answered"
  /\ call[r].endpoint \in {"signup", "resend_verification", "forgot_password"}
  /\ answer[r].status \in {201, 202}
  /\ Line(r, "auth") \in lines
  /\ lines' = lines \cup {Line(r, "email.delivery_failed")}
  /\ UNCHANGED <<at, call, inbound, context, result, answer, account>>

-----------------------------------------------------------------------------
Init ==
  /\ at = [r \in Requests |-> "none"]
  /\ call = [r \in Requests |-> None]
  /\ inbound = [r \in Requests |-> None]
  /\ context = [r \in Requests |-> None]
  /\ result = [r \in Requests |-> None]
  /\ answer = [r \in Requests |-> None]
  /\ lines = {}
  /\ account = None

Step(r) ==
  \/ Dispatch(r) \/ Validate(r) \/ Limit(r)
  \/ signup(r) \/ login(r) \/ reset_password(r) \/ Serve(r)
  \/ DatabaseError(r) \/ GoogleError(r)
  \/ Stamp(r) \/ Raise(r) \/ add_request_id_to_errors(r) \/ MailFailed(r)

Next ==
  \E r \in Requests :
    \/ \E c \in Calls, header \in Inbound \cup {None} : Receive(r, c, header)
    \/ Step(r)

Spec == Init /\ [][Next]_vars

-----------------------------------------------------------------------------
(* Properties *)

(* Every line a request logs, those of the middleware, of the limiter, of   *)
(* its endpoint and of its background mail, carries its own id, the one the *)
(* client finds in the answer, whatever requests run beside it.             *)
LinesCarryTheirId ==
  /\ \A line \in lines : line.request_id = RequestId(line.by)
  /\ \A r \in Requests :
       at[r] = "answered" /\ answer[r].status # 500 =>
         answer[r].request_id = RequestId(r)

(* No request is answered without a line that tells so: an access line, or  *)
(* the failure that led to a 500.                                           *)
EveryAnswerLogged ==
  \A r \in Requests : at[r] = "answered" =>
    \E line \in lines :
      /\ line.by = r
      /\ line.event = IF answer[r].status = 500 THEN "request.failed" ELSE "request"

(* A password that signup or reset accepts can be hashed, and then logs in: *)
(* characters are counted in one place, bytes in another.                   *)
AcceptedPasswordsWork ==
  /\ \A r \in Requests :
       at[r] = "raised" /\ result[r].exc = "ValueError" => call[r].endpoint = "login"
  /\ HasPassword =>
       LET p == account.password_hash IN
       /\ BcryptTakes(p)
       /\ Valid(Call("login", p, p, TRUE, TRUE))
       /\ Authenticate(p) = IF account.is_email_verified THEN 200 ELSE 403

(* What the proofs need: where each request has its id, its line and its    *)
(* valid body, and that no unfit password gets into a row.                  *)
Stages == {"none", "received", "bound", "valid", "returned", "raised", "unhandled", "answered"}
Row == [password_hash : {None} \cup Passwords, is_email_verified : BOOLEAN]
Fit(p) == PasswordField(p) /\ validate_password_strength(p)
RequestInv(r) ==
  /\ at[r] \notin {"none", "received"} => context[r] = RequestId(r)
  /\ at[r] # "none" => call[r] \in Calls
  /\ at[r] = "valid" => Valid(call[r])
  /\ at[r] = "returned" => result[r].status # 500
  /\ at[r] = "raised" /\ result[r].exc = "ValueError" => call[r].endpoint = "login"
  /\ at[r] = "unhandled" =>
       \E line \in lines : line.by = r /\ line.event = "request.failed"
PInv ==
  /\ at \in [Requests -> Stages]
  /\ DOMAIN call = Requests /\ DOMAIN inbound = Requests
  /\ DOMAIN context = Requests /\ DOMAIN result = Requests /\ DOMAIN answer = Requests
  /\ account \in {None} \cup Row
  /\ account # None => account.password_hash = None \/ Fit(account.password_hash)
  /\ \A r \in Requests : RequestInv(r)
  /\ \A line \in lines : line.by \in Requests /\ at[line.by] \notin {"none", "received"}
  /\ LinesCarryTheirId
  /\ EveryAnswerLogged

(* "Stamp every request with an ID" (middleware.py)                         *)
EveryAnswerStamped ==
  \A r \in Requests : at[r] = "answered" => answer[r].request_id = RequestId(r)

(* "Every credential failure shares one message" (service.py, authenticate) *)
CredentialFailuresShareAnAnswer ==
  \A r \in Requests :
    at[r] = "answered" /\ call[r].endpoint = "login" =>
      (answer[r].status = 500 => result[r].exc = "DBAPIError")
=============================================================================
