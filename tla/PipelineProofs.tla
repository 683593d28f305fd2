--------------------------- MODULE PipelineProofs ---------------------------
(***************************************************************************)
(* Proofs about RequestPipeline, for any requests, header values and       *)
(* passwords.                                                              *)
(***************************************************************************)
EXTENDS RequestPipeline, TLAPS

(* The shape of the state. *)
Shape ==
  /\ at \in [Requests -> Stages]
  /\ DOMAIN call = Requests /\ DOMAIN inbound = Requests
  /\ DOMAIN context = Requests /\ DOMAIN result = Requests /\ DOMAIN answer = Requests
FitRow(row) ==
  /\ row \in {None} \cup Row
  /\ row # None => row.password_hash = None \/ Fit(row.password_hash)
RowFit == FitRow(account)
LineFit(line) ==
  /\ line.by \in Requests
  /\ at[line.by] \notin {"none", "received"}
  /\ line.request_id = RequestId(line.by)
Answered(r) ==
  at[r] = "answered" =>
    /\ answer[r].status # 500 => answer[r].request_id = RequestId(r)
    /\ \E line \in lines :
         /\ line.by = r
         /\ line.event = IF answer[r].status = 500 THEN "request.failed" ELSE "request"

(* PInv, part by part. *)
LEMMA Parts ==
  PInv <=> /\ Shape /\ RowFit
           /\ \A r \in Requests : RequestInv(r) /\ Answered(r)
           /\ \A line \in lines : LineFit(line)
  BY DEF PInv, Shape, RowFit, FitRow, LineFit, Answered, LinesCarryTheirId, EveryAnswerLogged

(* Init implies the invariant. *)
LEMMA AtInit ==
  ASSUME Init
  PROVE  PInv
  BY DEF Init, PInv, Stages, RequestInv, LinesCarryTheirId, EveryAnswerLogged

(* A new stage for one request, the other requests as they were: what is    *)
(* left to show is about that request, the new lines and the row.           *)
LEMMA OneMoves ==
  ASSUME PInv, NEW r \in Requests,
         NEW stage \in Stages, at' = [at EXCEPT ![r] = stage],
         DOMAIN call' = Requests, DOMAIN inbound' = Requests,
         DOMAIN context' = Requests, DOMAIN result' = Requests,
         DOMAIN answer' = Requests,
         \A x \in Requests \ {r} :
           /\ call'[x] = call[x] /\ inbound'[x] = inbound[x]
           /\ context'[x] = context[x] /\ result'[x] = result[x]
           /\ answer'[x] = answer[x],
         inbound'[r] = inbound[r] \/ at[r] = "none",
         stage \in {"none", "received"} => at[r] \in {"none", "received"},
         lines \subseteq lines',
         \A line \in lines' \ lines : LineFit(line)',
         RowFit', RequestInv(r)', Answered(r)'
  PROVE  PInv'
  <1>1. /\ Shape /\ RowFit
        /\ \A x \in Requests : RequestInv(x) /\ Answered(x)
        /\ \A line \in lines : LineFit(line)
    BY Parts
  <1>2. Shape'
    BY <1>1 DEF Shape
  <1>3. ASSUME NEW x \in Requests, x # r
        PROVE  RequestInv(x)' /\ Answered(x)'
    <2>1. at'[x] = at[x] /\ RequestId(x)' = RequestId(x)
      BY <1>1, <1>3 DEF Shape, RequestId
    <2>2. RequestInv(x) /\ Answered(x)
      BY <1>1, <1>3
    <2>3. /\ call'[x] = call[x] /\ context'[x] = context[x]
          /\ result'[x] = result[x] /\ answer'[x] = answer[x]
      BY <1>3
    <2> QED BY <2>1, <2>2, <2>3 DEF RequestInv, Answered
  <1>4. ASSUME NEW line \in lines
        PROVE  LineFit(line)'
    <2>1. LineFit(line)
      BY <1>1, <1>4
    <2>2. CASE line.by = r
      BY <1>1, <2>1, <2>2 DEF LineFit, RequestId, Shape
    <2>3. CASE line.by # r
      BY <1>1, <2>1, <2>3 DEF LineFit, RequestId, Shape
    <2> QED BY <2>2, <2>3
  <1>5. \A line \in lines' : LineFit(line)'
    BY <1>4
  <1>6. \A x \in Requests : RequestInv(x)' /\ Answered(x)'
    BY <1>3
  <1>7. PInv' <=> /\ Shape' /\ RowFit'
                 /\ \A x \in Requests : RequestInv(x)' /\ Answered(x)'
                 /\ \A line \in lines' : LineFit(line)'
    BY DEF PInv, Shape, RowFit, FitRow, LineFit, Answered, LinesCarryTheirId, EveryAnswerLogged
  <1> QED BY <1>2, <1>5, <1>6, <1>7

(* A password that passes validation can be hashed. *)
LEMMA FitHashes ==
  ASSUME NEW p \in Passwords, Fit(p)
  PROVE  BcryptTakes(p)
  BY DEF Fit, validate_password_strength, BcryptTakes

(* What an endpoint has validated is fit for the row. *)
LEMMA ValidIsFit ==
  ASSUME PInv, NEW r \in Requests, at[r] = "valid",
         call[r].endpoint \in {"signup", "reset_password"}
  PROVE  /\ call[r].password \in Passwords /\ Fit(call[r].password)
         /\ BcryptTakes(call[r].password)
  <1>1. call[r] \in Calls /\ Valid(call[r])
    BY Parts DEF RequestInv
  <1>2. call[r].password \in Passwords
    BY <1>1 DEF Calls, Call, PasswordEndpoints
  <1>3. Fit(call[r].password)
    BY <1>1 DEF Valid, Fit
  <1> QED BY <1>2, <1>3, FitHashes

(* So what a call commits leaves a row that is fit. *)
LEMMA CommittedFits ==
  ASSUME PInv, NEW r \in Requests, at[r] = "valid"
  PROVE  FitRow(Committed(call[r]))
  <1> DEFINE c == call[r]
  <1>1. FitRow(account)
    BY Parts DEF RowFit
  <1>2. CASE c.endpoint = "signup" /\ account = None /\ BcryptTakes(c.password)
    <2>1. Committed(c) = [password_hash |-> c.password, is_email_verified |-> FALSE]
      BY <1>2 DEF Committed, Verifies, hash_password
    <2> QED BY <1>2, <2>1, ValidIsFit DEF FitRow, Row
  <1>3. CASE c.endpoint = "reset_password" /\ c.good /\ account # None /\ BcryptTakes(c.password)
    <2>1. Committed(c) = [account EXCEPT !.password_hash = c.password]
      BY <1>3 DEF Committed, Verifies, hash_password
    <2> QED BY <1>1, <1>3, <2>1, ValidIsFit DEF FitRow, Row
  <1>4. CASE Verifies(c) /\ account = None
    <2>1. Committed(c) = [password_hash |-> None, is_email_verified |-> TRUE]
      BY <1>4 DEF Committed, Verifies
    <2> QED BY <2>1 DEF FitRow, Row
  <1>5. CASE Verifies(c) /\ account # None
    <2>1. Committed(c) = [account EXCEPT !.is_email_verified = TRUE]
      BY <1>5 DEF Committed, Verifies
    <2> QED BY <1>1, <1>5, <2>1 DEF FitRow, Row
  <1>6. CASE Committed(c) = account
    BY <1>1, <1>6
  <1> QED BY <1>2, <1>3, <1>4, <1>5, <1>6 DEF Committed

(* A request comes in. *)
LEMMA ReceiveStep ==
  ASSUME PInv, NEW r \in Requests, NEW c \in Calls, NEW h \in Inbound \cup {None}, Receive(r, c, h)
  PROVE  PInv'
  <1>1. /\ Shape /\ RowFit /\ RequestInv(r) /\ Answered(r)
        /\ \A line \in lines : LineFit(line)
    BY Parts
  <1>2. /\ at' = [at EXCEPT ![r] = "received"] /\ "received" \in Stages
        /\ DOMAIN call' = Requests /\ DOMAIN inbound' = Requests
        /\ DOMAIN context' = Requests /\ DOMAIN result' = Requests
        /\ DOMAIN answer' = Requests /\ lines \subseteq lines'
        /\ at'[r] = "received"
    BY <1>1 DEF Receive, Shape, Stages
  <1>3. \A x \in Requests \ {r} :
           /\ call'[x] = call[x] /\ inbound'[x] = inbound[x]
           /\ context'[x] = context[x] /\ result'[x] = result[x]
           /\ answer'[x] = answer[x]
    BY <1>1 DEF Receive, Shape
  <1>4. RowFit'
    BY <1>1 DEF Receive, RowFit
  <1>5. RequestInv(r)'
    BY <1>1, <1>2 DEF Receive, RequestInv, RequestId, Shape
  <1>6. Answered(r)'
    BY <1>1, <1>2 DEF Receive, Answered, RequestInv, RequestId, Shape
  <1>7. \A line \in lines' \ lines : LineFit(line)'
    BY <1>1, <1>2 DEF Receive, Line, LineFit, RequestInv, RequestId, Shape
  <1>8. at[r] = "none" \/ inbound'[r] = inbound[r]
    BY <1>1 DEF Receive, Shape
  <1>9. "received" \in {"none", "received"} => at[r] \in {"none", "received"}
    BY DEF Receive
  <1> QED BY <1>2, <1>3, <1>4, <1>5, <1>6, <1>7, <1>8, <1>9, OneMoves

(* It gets its id. *)
LEMMA DispatchStep ==
  ASSUME PInv, NEW r \in Requests, Dispatch(r)
  PROVE  PInv'
  <1>1. /\ Shape /\ RowFit /\ RequestInv(r) /\ Answered(r)
        /\ \A line \in lines : LineFit(line)
    BY Parts
  <1>2. /\ at' = [at EXCEPT ![r] = "bound"] /\ "bound" \in Stages
        /\ DOMAIN call' = Requests /\ DOMAIN inbound' = Requests
        /\ DOMAIN context' = Requests /\ DOMAIN result' = Requests
        /\ DOMAIN answer' = Requests /\ lines \subseteq lines'
        /\ at'[r] = "bound"
    BY <1>1 DEF Dispatch, bind_contextvars, Shape, Stages
  <1>3. \A x \in Requests \ {r} :
           /\ call'[x] = call[x] /\ inbound'[x] = inbound[x]
           /\ context'[x] = context[x] /\ result'[x] = result[x]
           /\ answer'[x] = answer[x]
    BY <1>1 DEF Dispatch, bind_contextvars, Shape
  <1>4. RowFit'
    BY <1>1 DEF Dispatch, bind_contextvars, RowFit
  <1>5. RequestInv(r)'
    BY <1>1, <1>2 DEF Dispatch, bind_contextvars, RequestInv, RequestId, Shape
  <1>6. Answered(r)'
    BY <1>1, <1>2 DEF Dispatch, bind_contextvars, Answered, RequestInv, RequestId, Shape
  <1>7. \A line \in lines' \ lines : LineFit(line)'
    BY <1>1, <1>2 DEF Dispatch, bind_contextvars, Line, LineFit, RequestInv, RequestId, Shape
  <1>8. at[r] = "none" \/ inbound'[r] = inbound[r]
    BY <1>1 DEF Dispatch, bind_contextvars, Shape
  <1>9. "bound" \in {"none", "received"} => at[r] \in {"none", "received"}
    BY DEF Dispatch, bind_contextvars
  <1> QED BY <1>2, <1>3, <1>4, <1>5, <1>6, <1>7, <1>8, <1>9, OneMoves

(* Its body is refused, *)
LEMMA RefuseStep ==
  ASSUME PInv, NEW r \in Requests, Validate(r), ~Valid(call[r])
  PROVE  PInv'
  <1>1. /\ Shape /\ RowFit /\ RequestInv(r) /\ Answered(r)
        /\ \A line \in lines : LineFit(line)
    BY Parts
  <1>2. /\ at' = [at EXCEPT ![r] = "returned"] /\ "returned" \in Stages
        /\ DOMAIN call' = Requests /\ DOMAIN inbound' = Requests
        /\ DOMAIN context' = Requests /\ DOMAIN result' = Requests
        /\ DOMAIN answer' = Requests /\ lines \subseteq lines'
        /\ at'[r] = "returned"
    BY <1>1 DEF Validate, Returns, Shape, Stages
  <1>3. \A x \in Requests \ {r} :
           /\ call'[x] = call[x] /\ inbound'[x] = inbound[x]
           /\ context'[x] = context[x] /\ result'[x] = result[x]
           /\ answer'[x] = answer[x]
    BY <1>1 DEF Validate, Returns, Shape
  <1>4. RowFit'
    BY <1>1 DEF Validate, Returns, RowFit
  <1>5. RequestInv(r)'
    BY <1>1, <1>2 DEF Validate, Returns, RequestInv, RequestId, Shape
  <1>6. Answered(r)'
    BY <1>1, <1>2 DEF Validate, Returns, Answered, RequestInv, RequestId, Shape
  <1>7. \A line \in lines' \ lines : LineFit(line)'
    BY <1>1, <1>2 DEF Validate, Returns, Line, LineFit, RequestInv, RequestId, Shape
  <1>8. at[r] = "none" \/ inbound'[r] = inbound[r]
    BY <1>1 DEF Validate, Returns, Shape
  <1>9. "returned" \in {"none", "received"} => at[r] \in {"none", "received"}
    BY DEF Validate, Returns
  <1> QED BY <1>2, <1>3, <1>4, <1>5, <1>6, <1>7, <1>8, <1>9, OneMoves

(* or passes. *)
LEMMA PassStep ==
  ASSUME PInv, NEW r \in Requests, Validate(r), Valid(call[r])
  PROVE  PInv'
  <1>1. /\ Shape /\ RowFit /\ RequestInv(r) /\ Answered(r)
        /\ \A line \in lines : LineFit(line)
    BY Parts
  <1>2. /\ at' = [at EXCEPT ![r] = "valid"] /\ "valid" \in Stages
        /\ DOMAIN call' = Requests /\ DOMAIN inbound' = Requests
        /\ DOMAIN context' = Requests /\ DOMAIN result' = Requests
        /\ DOMAIN answer' = Requests /\ lines \subseteq lines'
        /\ at'[r] = "valid"
    BY <1>1 DEF Validate, Shape, Stages
  <1>3. \A x \in Requests \ {r} :
           /\ call'[x] = call[x] /\ inbound'[x] = inbound[x]
           /\ context'[x] = context[x] /\ result'[x] = result[x]
           /\ answer'[x] = answer[x]
    BY <1>1 DEF Validate, Shape
  <1>4. RowFit'
    BY <1>1 DEF Validate, RowFit
  <1>5. RequestInv(r)'
    BY <1>1, <1>2 DEF Validate, RequestInv, RequestId, Shape
  <1>6. Answered(r)'
    BY <1>1, <1>2 DEF Validate, Answered, RequestInv, RequestId, Shape
  <1>7. \A line \in lines' \ lines : LineFit(line)'
    BY <1>1, <1>2 DEF Validate, Line, LineFit, RequestInv, RequestId, Shape
  <1>8. at[r] = "none" \/ inbound'[r] = inbound[r]
    BY <1>1 DEF Validate, Shape
  <1>9. "valid" \in {"none", "received"} => at[r] \in {"none", "received"}
    BY DEF Validate
  <1> QED BY <1>2, <1>3, <1>4, <1>5, <1>6, <1>7, <1>8, <1>9, OneMoves

(* The limiter refuses it. *)
LEMMA LimitStep ==
  ASSUME PInv, NEW r \in Requests, Limit(r)
  PROVE  PInv'
  <1>1. /\ Shape /\ RowFit /\ RequestInv(r) /\ Answered(r)
        /\ \A line \in lines : LineFit(line)
    BY Parts
  <1>2. /\ at' = [at EXCEPT ![r] = "returned"] /\ "returned" \in Stages
        /\ DOMAIN call' = Requests /\ DOMAIN inbound' = Requests
        /\ DOMAIN context' = Requests /\ DOMAIN result' = Requests
        /\ DOMAIN answer' = Requests /\ lines \subseteq lines'
        /\ at'[r] = "returned"
    BY <1>1 DEF Limit, Returns, Shape, Stages
  <1>3. \A x \in Requests \ {r} :
           /\ call'[x] = call[x] /\ inbound'[x] = inbound[x]
           /\ context'[x] = context[x] /\ result'[x] = result[x]
           /\ answer'[x] = answer[x]
    BY <1>1 DEF Limit, Returns, Shape
  <1>4. RowFit'
    BY <1>1 DEF Limit, Returns, RowFit
  <1>5. RequestInv(r)'
    BY <1>1, <1>2 DEF Limit, Returns, RequestInv, RequestId, Shape
  <1>6. Answered(r)'
    BY <1>1, <1>2 DEF Limit, Returns, Answered, RequestInv, RequestId, Shape
  <1>7. \A line \in lines' \ lines : LineFit(line)'
    BY <1>1, <1>2 DEF Limit, Returns, Line, LineFit, RequestInv, RequestId, Shape
  <1>8. at[r] = "none" \/ inbound'[r] = inbound[r]
    BY <1>1 DEF Limit, Returns, Shape
  <1>9. "returned" \in {"none", "received"} => at[r] \in {"none", "received"}
    BY DEF Limit, Returns
  <1> QED BY <1>2, <1>3, <1>4, <1>5, <1>6, <1>7, <1>8, <1>9, OneMoves

(* An endpoint that has nothing to do with passwords answers. *)
LEMMA ServeStep ==
  ASSUME PInv, NEW r \in Requests, Serve(r)
  PROVE  PInv'
  <1>1. /\ Shape /\ RowFit /\ RequestInv(r) /\ Answered(r)
        /\ \A line \in lines : LineFit(line)
    BY Parts
  <1>2. /\ at' = [at EXCEPT ![r] = "returned"] /\ "returned" \in Stages
        /\ DOMAIN call' = Requests /\ DOMAIN inbound' = Requests
        /\ DOMAIN context' = Requests /\ DOMAIN result' = Requests
        /\ DOMAIN answer' = Requests /\ lines \subseteq lines'
        /\ at'[r] = "returned"
    BY <1>1 DEF Serve, Returns, Logged, Shape, Stages
  <1>3. \A x \in Requests \ {r} :
           /\ call'[x] = call[x] /\ inbound'[x] = inbound[x]
           /\ context'[x] = context[x] /\ result'[x] = result[x]
           /\ answer'[x] = answer[x]
    BY <1>1 DEF Serve, Returns, Shape
  <1>4. RowFit'
    BY CommittedFits DEF Serve, RowFit, FitRow
  <1>5. RequestInv(r)'
    BY <1>1, <1>2 DEF Serve, Returns, RequestInv, RequestId, Shape, Statuses, Endpoints, BodyEndpoints, UnlimitedEndpoints, PasswordEndpoints, Calls, Call
  <1>6. Answered(r)'
    BY <1>1, <1>2 DEF Serve, Returns, Answered, RequestInv, RequestId, Shape
  <1>7. \A line \in lines' \ lines : LineFit(line)'
    BY <1>1, <1>2 DEF Serve, Returns, Logged, Line, LineFit, RequestInv, RequestId, Shape
  <1>8. at[r] = "none" \/ inbound'[r] = inbound[r]
    BY <1>1 DEF Serve, Returns, Shape
  <1>9. "returned" \in {"none", "received"} => at[r] \in {"none", "received"}
    BY DEF Serve, Returns
  <1> QED BY <1>2, <1>3, <1>4, <1>5, <1>6, <1>7, <1>8, <1>9, OneMoves

(* The database fails. *)
LEMMA DatabaseErrorStep ==
  ASSUME PInv, NEW r \in Requests, DatabaseError(r)
  PROVE  PInv'
  <1>1. /\ Shape /\ RowFit /\ RequestInv(r) /\ Answered(r)
        /\ \A line \in lines : LineFit(line)
    BY Parts
  <1>2. /\ at' = [at EXCEPT ![r] = "raised"] /\ "raised" \in Stages
        /\ DOMAIN call' = Requests /\ DOMAIN inbound' = Requests
        /\ DOMAIN context' = Requests /\ DOMAIN result' = Requests
        /\ DOMAIN answer' = Requests /\ lines \subseteq lines'
        /\ at'[r] = "raised"
    BY <1>1 DEF DatabaseError, Raises, Logged, Shape, Stages
  <1>3. \A x \in Requests \ {r} :
           /\ call'[x] = call[x] /\ inbound'[x] = inbound[x]
           /\ context'[x] = context[x] /\ result'[x] = result[x]
           /\ answer'[x] = answer[x]
    BY <1>1 DEF DatabaseError, Raises, Shape
  <1>4. RowFit'
    BY <1>1, CommittedFits DEF DatabaseError, RowFit, FitRow
  <1>5. RequestInv(r)'
    BY <1>1, <1>2 DEF DatabaseError, Raises, RequestInv, RequestId, Shape
  <1>6. Answered(r)'
    BY <1>1, <1>2 DEF DatabaseError, Raises, Answered, RequestInv, RequestId, Shape
  <1>7. \A line \in lines' \ lines : LineFit(line)'
    BY <1>1, <1>2 DEF DatabaseError, Raises, Logged, Line, LineFit, RequestInv, RequestId, Shape
  <1>8. at[r] = "none" \/ inbound'[r] = inbound[r]
    BY <1>1 DEF DatabaseError, Raises, Shape
  <1>9. "raised" \in {"none", "received"} => at[r] \in {"none", "received"}
    BY DEF DatabaseError, Raises
  <1> QED BY <1>2, <1>3, <1>4, <1>5, <1>6, <1>7, <1>8, <1>9, OneMoves

(* Google does not answer. *)
LEMMA GoogleErrorStep ==
  ASSUME PInv, NEW r \in Requests, GoogleError(r)
  PROVE  PInv'
  <1>1. /\ Shape /\ RowFit /\ RequestInv(r) /\ Answered(r)
        /\ \A line \in lines : LineFit(line)
    BY Parts
  <1>2. /\ at' = [at EXCEPT ![r] = "raised"] /\ "raised" \in Stages
        /\ DOMAIN call' = Requests /\ DOMAIN inbound' = Requests
        /\ DOMAIN context' = Requests /\ DOMAIN result' = Requests
        /\ DOMAIN answer' = Requests /\ lines \subseteq lines'
        /\ at'[r] = "raised"
    BY <1>1 DEF GoogleError, Raises, Shape, Stages
  <1>3. \A x \in Requests \ {r} :
           /\ call'[x] = call[x] /\ inbound'[x] = inbound[x]
           /\ context'[x] = context[x] /\ result'[x] = result[x]
           /\ answer'[x] = answer[x]
    BY <1>1 DEF GoogleError, Raises, Shape
  <1>4. RowFit'
    BY <1>1 DEF GoogleError, Raises, RowFit
  <1>5. RequestInv(r)'
    BY <1>1, <1>2 DEF GoogleError, Raises, RequestInv, RequestId, Shape
  <1>6. Answered(r)'
    BY <1>1, <1>2 DEF GoogleError, Raises, Answered, RequestInv, RequestId, Shape
  <1>7. \A line \in lines' \ lines : LineFit(line)'
    BY <1>1, <1>2 DEF GoogleError, Raises, Line, LineFit, RequestInv, RequestId, Shape
  <1>8. at[r] = "none" \/ inbound'[r] = inbound[r]
    BY <1>1 DEF GoogleError, Raises, Shape
  <1>9. "raised" \in {"none", "received"} => at[r] \in {"none", "received"}
    BY DEF GoogleError, Raises
  <1> QED BY <1>2, <1>3, <1>4, <1>5, <1>6, <1>7, <1>8, <1>9, OneMoves

(* The answer is logged and stamped. *)
LEMMA StampStep ==
  ASSUME PInv, NEW r \in Requests, Stamp(r)
  PROVE  PInv'
  <1>1. /\ Shape /\ RowFit /\ RequestInv(r) /\ Answered(r)
        /\ \A line \in lines : LineFit(line)
    BY Parts
  <1>0. /\ Line(r, "request") \in lines'
        /\ Line(r, "request").by = r /\ Line(r, "request").event = "request"
    BY DEF Stamp, Line
  <1>2. /\ at' = [at EXCEPT ![r] = "answered"] /\ "answered" \in Stages
        /\ DOMAIN call' = Requests /\ DOMAIN inbound' = Requests
        /\ DOMAIN context' = Requests /\ DOMAIN result' = Requests
        /\ DOMAIN answer' = Requests /\ lines \subseteq lines'
        /\ at'[r] = "answered"
    BY <1>0, <1>1 DEF Stamp, Shape, Stages
  <1>3. \A x \in Requests \ {r} :
           /\ call'[x] = call[x] /\ inbound'[x] = inbound[x]
           /\ context'[x] = context[x] /\ result'[x] = result[x]
           /\ answer'[x] = answer[x]
    BY <1>0, <1>1 DEF Stamp, Shape
  <1>4. RowFit'
    BY <1>0, <1>1 DEF Stamp, RowFit
  <1>5. RequestInv(r)'
    BY <1>0, <1>1, <1>2 DEF Stamp, RequestInv, RequestId, Shape
  <1>6. Answered(r)'
    BY <1>0, <1>1, <1>2 DEF Stamp, Answered, RequestInv, RequestId, Shape
  <1>7. \A line \in lines' \ lines : LineFit(line)'
    BY <1>0, <1>1, <1>2 DEF Stamp, Line, LineFit, RequestInv, RequestId, Shape
  <1>8. at[r] = "none" \/ inbound'[r] = inbound[r]
    BY <1>0, <1>1 DEF Stamp, Shape
  <1>9. "answered" \in {"none", "received"} => at[r] \in {"none", "received"}
    BY DEF Stamp
  <1> QED BY <1>2, <1>3, <1>4, <1>5, <1>6, <1>7, <1>8, <1>9, OneMoves

(* An exception is logged. *)
LEMMA RaiseStep ==
  ASSUME PInv, NEW r \in Requests, Raise(r)
  PROVE  PInv'
  <1>1. /\ Shape /\ RowFit /\ RequestInv(r) /\ Answered(r)
        /\ \A line \in lines : LineFit(line)
    BY Parts
  <1>0. /\ Line(r, "request.failed") \in lines'
        /\ Line(r, "request.failed").by = r /\ Line(r, "request.failed").event = "request.failed"
    BY DEF Raise, Line
  <1>2. /\ at' = [at EXCEPT ![r] = "unhandled"] /\ "unhandled" \in Stages
        /\ DOMAIN call' = Requests /\ DOMAIN inbound' = Requests
        /\ DOMAIN context' = Requests /\ DOMAIN result' = Requests
        /\ DOMAIN answer' = Requests /\ lines \subseteq lines'
        /\ at'[r] = "unhandled"
    BY <1>0, <1>1 DEF Raise, Shape, Stages
  <1>3. \A x \in Requests \ {r} :
           /\ call'[x] = call[x] /\ inbound'[x] = inbound[x]
           /\ context'[x] = context[x] /\ result'[x] = result[x]
           /\ answer'[x] = answer[x]
    BY <1>0, <1>1 DEF Raise, Shape
  <1>4. RowFit'
    BY <1>0, <1>1 DEF Raise, RowFit
  <1>5. RequestInv(r)'
    BY <1>0, <1>1, <1>2 DEF Raise, RequestInv, RequestId, Shape
  <1>6. Answered(r)'
    BY <1>0, <1>1, <1>2 DEF Raise, Answered, RequestInv, RequestId, Shape
  <1>7. \A line \in lines' \ lines : LineFit(line)'
    BY <1>0, <1>1, <1>2 DEF Raise, Line, LineFit, RequestInv, RequestId, Shape
  <1>8. at[r] = "none" \/ inbound'[r] = inbound[r]
    BY <1>0, <1>1 DEF Raise, Shape
  <1>9. "unhandled" \in {"none", "received"} => at[r] \in {"none", "received"}
    BY DEF Raise
  <1> QED BY <1>2, <1>3, <1>4, <1>5, <1>6, <1>7, <1>8, <1>9, OneMoves

(* The server answers for the handler that failed. *)
LEMMA UnhandledStep ==
  ASSUME PInv, NEW r \in Requests, add_request_id_to_errors(r)
  PROVE  PInv'
  <1>1. /\ Shape /\ RowFit /\ RequestInv(r) /\ Answered(r)
        /\ \A line \in lines : LineFit(line)
    BY Parts
  <1>2. /\ at' = [at EXCEPT ![r] = "answered"] /\ "answered" \in Stages
        /\ DOMAIN call' = Requests /\ DOMAIN inbound' = Requests
        /\ DOMAIN context' = Requests /\ DOMAIN result' = Requests
        /\ DOMAIN answer' = Requests /\ lines \subseteq lines'
        /\ at'[r] = "answered"
    BY <1>1 DEF add_request_id_to_errors, HTTPExceptions, Shape, Stages
  <1>3. \A x \in Requests \ {r} :
           /\ call'[x] = call[x] /\ inbound'[x] = inbound[x]
           /\ context'[x] = context[x] /\ result'[x] = result[x]
           /\ answer'[x] = answer[x]
    BY <1>1 DEF add_request_id_to_errors, HTTPExceptions, Shape
  <1>4. RowFit'
    BY <1>1 DEF add_request_id_to_errors, HTTPExceptions, RowFit
  <1>5. RequestInv(r)'
    BY <1>1, <1>2 DEF add_request_id_to_errors, HTTPExceptions, RequestInv, RequestId, Shape
  <1>6. Answered(r)'
    BY <1>1, <1>2 DEF add_request_id_to_errors, HTTPExceptions, Answered, RequestInv, RequestId, Shape
  <1>7. \A line \in lines' \ lines : LineFit(line)'
    BY <1>1, <1>2 DEF add_request_id_to_errors, HTTPExceptions, Line, LineFit, RequestInv, RequestId, Shape
  <1>8. at[r] = "none" \/ inbound'[r] = inbound[r]
    BY <1>1 DEF add_request_id_to_errors, HTTPExceptions, Shape
  <1>9. "answered" \in {"none", "received"} => at[r] \in {"none", "received"}
    BY DEF add_request_id_to_errors, HTTPExceptions
  <1> QED BY <1>2, <1>3, <1>4, <1>5, <1>6, <1>7, <1>8, <1>9, OneMoves

(* A background mail fails. *)
LEMMA MailFailedStep ==
  ASSUME PInv, NEW r \in Requests, MailFailed(r)
  PROVE  PInv'
  <1>1. /\ Shape /\ RowFit /\ RequestInv(r) /\ Answered(r)
        /\ \A line \in lines : LineFit(line)
    BY Parts
  <1>2. /\ at' = [at EXCEPT ![r] = "answered"] /\ "answered" \in Stages
        /\ DOMAIN call' = Requests /\ DOMAIN inbound' = Requests
        /\ DOMAIN context' = Requests /\ DOMAIN result' = Requests
        /\ DOMAIN answer' = Requests /\ lines \subseteq lines'
        /\ at'[r] = "answered"
    BY <1>1 DEF MailFailed, Shape, Stages
  <1>3. \A x \in Requests \ {r} :
           /\ call'[x] = call[x] /\ inbound'[x] = inbound[x]
           /\ context'[x] = context[x] /\ result'[x] = result[x]
           /\ answer'[x] = answer[x]
    BY <1>1 DEF MailFailed, Shape
  <1>4. RowFit'
    BY <1>1 DEF MailFailed, RowFit
  <1>5. RequestInv(r)'
    BY <1>1, <1>2 DEF MailFailed, RequestInv, RequestId, Shape
  <1>6. Answered(r)'
    BY <1>1, <1>2 DEF MailFailed, Answered, RequestInv, RequestId, Shape
  <1>7. \A line \in lines' \ lines : LineFit(line)'
    BY <1>1, <1>2 DEF MailFailed, Line, LineFit, RequestInv, RequestId, Shape
  <1>8. at[r] = "none" \/ inbound'[r] = inbound[r]
    BY <1>1 DEF MailFailed, Shape
  <1>9. "answered" \in {"none", "received"} => at[r] \in {"none", "received"}
    BY DEF MailFailed
  <1> QED BY <1>2, <1>3, <1>4, <1>5, <1>6, <1>7, <1>8, <1>9, OneMoves

(* What signup hashes has been validated: it does not raise. *)
LEMMA SignupStep ==
  ASSUME PInv, NEW r \in Requests, signup(r)
  PROVE  PInv'
  <1>1. /\ Shape /\ RowFit /\ RequestInv(r) /\ Answered(r)
        /\ \A line \in lines : LineFit(line)
    BY Parts
  <1>0. /\ call[r].password \in Passwords /\ Fit(call[r].password)
        /\ BcryptTakes(call[r].password) /\ at[r] = "valid"
    BY ValidIsFit DEF signup, Serving
  <1>2. /\ at' = [at EXCEPT ![r] = "returned"] /\ "returned" \in Stages
        /\ DOMAIN call' = Requests /\ DOMAIN inbound' = Requests
        /\ DOMAIN context' = Requests /\ DOMAIN result' = Requests
        /\ DOMAIN answer' = Requests /\ lines \subseteq lines'
        /\ at'[r] = "returned"
    BY <1>0, <1>1 DEF signup, Serving, Returns, PasswordRaises, Logged, Shape, Stages
  <1>3. \A x \in Requests \ {r} :
           /\ call'[x] = call[x] /\ inbound'[x] = inbound[x]
           /\ context'[x] = context[x] /\ result'[x] = result[x]
           /\ answer'[x] = answer[x]
    BY <1>0, <1>1 DEF signup, Serving, Returns, PasswordRaises, Shape
  <1>4. RowFit'
    BY <1>0, CommittedFits DEF signup, PasswordRaises, RowFit, FitRow
  <1>5. RequestInv(r)'
    BY <1>0, <1>1, <1>2 DEF signup, Serving, Returns, PasswordRaises, RequestInv, RequestId, Shape
  <1>6. Answered(r)'
    BY <1>0, <1>1, <1>2 DEF signup, Serving, Returns, PasswordRaises, Answered, RequestInv, RequestId, Shape
  <1>7. \A line \in lines' \ lines : LineFit(line)'
    BY <1>0, <1>1, <1>2 DEF signup, Serving, Returns, PasswordRaises, Logged, Line, LineFit, RequestInv, RequestId, Shape
  <1>8. at[r] = "none" \/ inbound'[r] = inbound[r]
    BY <1>0, <1>1 DEF signup, Serving, Returns, PasswordRaises, Shape
  <1>9. "returned" \in {"none", "received"} => at[r] \in {"none", "received"}
    BY DEF signup, Serving, Returns, PasswordRaises
  <1> QED BY <1>2, <1>3, <1>4, <1>5, <1>6, <1>7, <1>8, <1>9, OneMoves

(* Nor does what reset_password hashes. *)
LEMMA ResetStep ==
  ASSUME PInv, NEW r \in Requests, reset_password(r)
  PROVE  PInv'
  <1>1. /\ Shape /\ RowFit /\ RequestInv(r) /\ Answered(r)
        /\ \A line \in lines : LineFit(line)
    BY Parts
  <1>0. /\ call[r].password \in Passwords /\ Fit(call[r].password)
        /\ BcryptTakes(call[r].password) /\ at[r] = "valid"
    BY ValidIsFit DEF reset_password, Serving
  <1>2. /\ at' = [at EXCEPT ![r] = "returned"] /\ "returned" \in Stages
        /\ DOMAIN call' = Requests /\ DOMAIN inbound' = Requests
        /\ DOMAIN context' = Requests /\ DOMAIN result' = Requests
        /\ DOMAIN answer' = Requests /\ lines \subseteq lines'
        /\ at'[r] = "returned"
    BY <1>0, <1>1 DEF reset_password, Serving, Returns, PasswordRaises, Logged, Shape, Stages
  <1>3. \A x \in Requests \ {r} :
           /\ call'[x] = call[x] /\ inbound'[x] = inbound[x]
           /\ context'[x] = context[x] /\ result'[x] = result[x]
           /\ answer'[x] = answer[x]
    BY <1>0, <1>1 DEF reset_password, Serving, Returns, PasswordRaises, Shape
  <1>4. RowFit'
    BY <1>0, <1>1, CommittedFits DEF reset_password, PasswordRaises, RowFit, FitRow
  <1>5. RequestInv(r)'
    BY <1>0, <1>1, <1>2 DEF reset_password, Serving, Returns, PasswordRaises, RequestInv, RequestId, Shape
  <1>6. Answered(r)'
    BY <1>0, <1>1, <1>2 DEF reset_password, Serving, Returns, PasswordRaises, Answered, RequestInv, RequestId, Shape
  <1>7. \A line \in lines' \ lines : LineFit(line)'
    BY <1>0, <1>1, <1>2 DEF reset_password, Serving, Returns, PasswordRaises, Logged, Line, LineFit, RequestInv, RequestId, Shape
  <1>8. at[r] = "none" \/ inbound'[r] = inbound[r]
    BY <1>0, <1>1 DEF reset_password, Serving, Returns, PasswordRaises, Shape
  <1>9. "returned" \in {"none", "received"} => at[r] \in {"none", "received"}
    BY DEF reset_password, Serving, Returns, PasswordRaises
  <1> QED BY <1>2, <1>3, <1>4, <1>5, <1>6, <1>7, <1>8, <1>9, OneMoves

(* login answers, *)
LEMMA LoginStep ==
  ASSUME PInv, NEW r \in Requests, login(r), ~(HasPassword /\ PasswordRaises(r))
  PROVE  PInv'
  <1>1. /\ Shape /\ RowFit /\ RequestInv(r) /\ Answered(r)
        /\ \A line \in lines : LineFit(line)
    BY Parts
  <1>2. /\ at' = [at EXCEPT ![r] = "returned"] /\ "returned" \in Stages
        /\ DOMAIN call' = Requests /\ DOMAIN inbound' = Requests
        /\ DOMAIN context' = Requests /\ DOMAIN result' = Requests
        /\ DOMAIN answer' = Requests /\ lines \subseteq lines'
        /\ at'[r] = "returned"
    BY <1>1 DEF login, Serving, Returns, Authenticate, Logged, Shape, Stages
  <1>3. \A x \in Requests \ {r} :
           /\ call'[x] = call[x] /\ inbound'[x] = inbound[x]
           /\ context'[x] = context[x] /\ result'[x] = result[x]
           /\ answer'[x] = answer[x]
    BY <1>1 DEF login, Serving, Returns, Authenticate, Shape
  <1>4. RowFit'
    BY <1>1 DEF login, Serving, Returns, Authenticate, RowFit
  <1>5. RequestInv(r)'
    BY <1>1, <1>2 DEF login, Serving, Returns, Authenticate, RequestInv, RequestId, Shape
  <1>6. Answered(r)'
    BY <1>1, <1>2 DEF login, Serving, Returns, Authenticate, Answered, RequestInv, RequestId, Shape
  <1>7. \A line \in lines' \ lines : LineFit(line)'
    BY <1>1, <1>2 DEF login, Serving, Returns, Authenticate, Logged, Line, LineFit, RequestInv, RequestId, Shape
  <1>8. at[r] = "none" \/ inbound'[r] = inbound[r]
    BY <1>1 DEF login, Serving, Returns, Authenticate, Shape
  <1>9. "returned" \in {"none", "received"} => at[r] \in {"none", "received"}
    BY DEF login, Serving, Returns, Authenticate
  <1> QED BY <1>2, <1>3, <1>4, <1>5, <1>6, <1>7, <1>8, <1>9, OneMoves

(* or raises. *)
LEMMA LoginRaisesStep ==
  ASSUME PInv, NEW r \in Requests, login(r), HasPassword /\ PasswordRaises(r)
  PROVE  PInv'
  <1>1. /\ Shape /\ RowFit /\ RequestInv(r) /\ Answered(r)
        /\ \A line \in lines : LineFit(line)
    BY Parts
  <1>2. /\ at' = [at EXCEPT ![r] = "raised"] /\ "raised" \in Stages
        /\ DOMAIN call' = Requests /\ DOMAIN inbound' = Requests
        /\ DOMAIN context' = Requests /\ DOMAIN result' = Requests
        /\ DOMAIN answer' = Requests /\ lines \subseteq lines'
        /\ at'[r] = "raised"
    BY <1>1 DEF login, Serving, Raises, PasswordRaises, Shape, Stages
  <1>3. \A x \in Requests \ {r} :
           /\ call'[x] = call[x] /\ inbound'[x] = inbound[x]
           /\ context'[x] = context[x] /\ result'[x] = result[x]
           /\ answer'[x] = answer[x]
    BY <1>1 DEF login, Serving, Raises, PasswordRaises, Shape
  <1>4. RowFit'
    BY <1>1 DEF login, Serving, Raises, PasswordRaises, RowFit
  <1>5. RequestInv(r)'
    BY <1>1, <1>2 DEF login, Serving, Raises, PasswordRaises, RequestInv, RequestId, Shape
  <1>6. Answered(r)'
    BY <1>1, <1>2 DEF login, Serving, Raises, PasswordRaises, Answered, RequestInv, RequestId, Shape
  <1>7. \A line \in lines' \ lines : LineFit(line)'
    BY <1>1, <1>2 DEF login, Serving, Raises, PasswordRaises, Line, LineFit, RequestInv, RequestId, Shape
  <1>8. at[r] = "none" \/ inbound'[r] = inbound[r]
    BY <1>1 DEF login, Serving, Raises, PasswordRaises, Shape
  <1>9. "raised" \in {"none", "received"} => at[r] \in {"none", "received"}
    BY DEF login, Serving, Raises, PasswordRaises
  <1> QED BY <1>2, <1>3, <1>4, <1>5, <1>6, <1>7, <1>8, <1>9, OneMoves

(* Every step keeps the invariant. *)
LEMMA AtStep ==
  ASSUME PInv, [Next]_vars
  PROVE  PInv'
  <1>1. ASSUME NEW r \in Requests, NEW c \in Calls, NEW h \in Inbound \cup {None},
               Receive(r, c, h)
        PROVE  PInv'
    BY <1>1, ReceiveStep
  <1>2. ASSUME NEW r \in Requests, Step(r)
        PROVE  PInv'
    <2>1. CASE Dispatch(r)
      BY <2>1, DispatchStep
    <2>2. CASE Validate(r)
      BY <2>2, RefuseStep, PassStep
    <2>3. CASE Limit(r)
      BY <2>3, LimitStep
    <2>4. CASE signup(r)
      BY <2>4, SignupStep
    <2>5. CASE login(r)
      BY <2>5, LoginStep, LoginRaisesStep
    <2>6. CASE reset_password(r)
      BY <2>6, ResetStep
    <2>7. CASE Serve(r)
      BY <2>7, ServeStep
    <2>8. CASE DatabaseError(r)
      BY <2>8, DatabaseErrorStep
    <2>9. CASE Stamp(r)
      BY <2>9, StampStep
    <2>10. CASE Raise(r)
      BY <2>10, RaiseStep
    <2>11. CASE add_request_id_to_errors(r)
      BY <2>11, UnhandledStep
    <2>12. CASE MailFailed(r)
      BY <2>12, MailFailedStep
    <2>13. CASE GoogleError(r)
      BY <2>13, GoogleErrorStep
    <2> QED BY <1>2, <2>1, <2>2, <2>3, <2>4, <2>5, <2>6, <2>7, <2>8, <2>9, <2>10,
               <2>11, <2>12, <2>13 DEF Step
  <1>3. CASE UNCHANGED vars
    <2>1. /\ Shape /\ RowFit
          /\ \A r \in Requests : RequestInv(r) /\ Answered(r)
          /\ \A line \in lines : LineFit(line)
      BY Parts
    <2>2. Shape' /\ RowFit'
      BY <1>3, <2>1 DEF vars, Shape, RowFit, FitRow
    <2>3. \A r \in Requests : RequestInv(r)' /\ Answered(r)'
      BY <1>3, <2>1 DEF vars, RequestInv, Answered, RequestId
    <2>4. \A line \in lines' : LineFit(line)'
      BY <1>3, <2>1 DEF vars, LineFit, RequestId
    <2> QED BY <2>2, <2>3, <2>4
         DEF PInv, Shape, RowFit, FitRow, LineFit, Answered, LinesCarryTheirId, EveryAnswerLogged
  <1> QED BY <1>1, <1>2, <1>3 DEF Next

-----------------------------------------------------------------------------
(* The theorems *)

(* Where every request has its id, its line and its valid body. *)
THEOREM PipelineInductive == Spec => []PInv
  BY AtInit, AtStep, PTL DEF Spec

(* Whatever runs beside a request, its lines and its answer carry its id. *)
THEOREM IdsDoNotMix == Spec => []LinesCarryTheirId
  <1>1. PInv => LinesCarryTheirId
    BY DEF PInv
  <1> QED BY <1>1, PipelineInductive, PTL

(* Nothing is answered without a line. *)
THEOREM AnswersLeaveALine == Spec => []EveryAnswerLogged
  <1>1. PInv => EveryAnswerLogged
    BY DEF PInv
  <1> QED BY <1>1, PipelineInductive, PTL

(* Any password signup or reset accepts can be hashed and logs in. *)
THEOREM PasswordsWork == Spec => []AcceptedPasswordsWork
  <1>1. ASSUME PInv, NEW r \in Requests, at[r] = "raised", result[r].exc = "ValueError"
        PROVE  call[r].endpoint = "login"
    BY <1>1 DEF PInv, RequestInv
  <1>2. ASSUME PInv, HasPassword
        PROVE  LET p == account.password_hash IN
               /\ BcryptTakes(p)
               /\ Valid(Call("login", p, p, TRUE, TRUE))
               /\ Authenticate(p) = IF account.is_email_verified THEN 200 ELSE 403
    <2> DEFINE p == account.password_hash
    <2>1. p \in Passwords /\ Fit(p)
      BY <1>2 DEF PInv, HasPassword, Row
    <2>2. BcryptTakes(p)
      BY <2>1, FitHashes
    <2>3. p.chars \in 8..72
      BY <2>1 DEF Fit, PasswordField
    <2>4. Valid(Call("login", p, p, TRUE, TRUE))
      BY <2>3 DEF Valid, Call
    <2>5. Authenticate(p) = IF account.is_email_verified THEN 200 ELSE 403
      BY <1>2 DEF Authenticate, verify_password
    <2> QED BY <2>2, <2>4, <2>5
  <1>3. PInv => AcceptedPasswordsWork
    BY <1>1, <1>2 DEF AcceptedPasswordsWork
  <1> QED BY <1>3, PipelineInductive, PTL
=============================================================================
