------------------------------ MODULE VerifyCode ------------------------------
(***************************************************************************)
(* Verification codes: VerifyServer (server.js, redis.js, email.js) makes, *)
(* stores and mails them; GateServer (LogicSystem.cpp, MySQLMgr.cpp)       *)
(* compares them when an account is registered or its password reset.      *)
(* VerifyServer runs one thread, but every command to Redis and every mail *)
(* is awaited, so calls of GetVerifyCode interleave at each of them:       *)
(*   get the code of the address; if there is none (or get failed) make    *)
(*   one, set it, expire it; mail it; answer                               *)
(* A command may fail before or after Redis executed it.  An error of the  *)
(* connection makes the handler of redis.js quit it, after which every     *)
(* command fails until VerifyServer is restarted.  GateServer has its own  *)
(* connections and reads the code while all this goes on.                  *)
(* A code is a number, new for each call (six hex digits of a UUID); a     *)
(* client knows a code from the mail with it and from nowhere else.        *)
(*                                                                         *)
(* The definitions that every specification has bear this module's name:   *)
(* GateServerProofs extends it next to GateRequest.                        *)
(***************************************************************************)
EXTENDS Integers, FiniteSets

CONSTANTS Emails,
          Calls,     \* calls of GetVerifyCode under way at a time
          Forms,     \* registrations and resets under way at a time
          MaxCodes,  \* bound: codes made
          NoCode

ASSUME VerifyAssumption ==
  MaxCodes \in Nat /\ NoCode \notin Nat /\ IsFiniteSet(Calls)

VARIABLES made,      \* codes made so far
          code,      \* the key verifycode_<email> in Redis
          ttl,       \* whether it has a time to live
          open,      \* VerifyServer's connection to Redis is open
          call,      \* the calls: where each is, with which address and code
          mails,     \* mails that went out, as <<address, code>>
          form,      \* the handlers of GateServer: where, for whom, with what
          account,   \* the addresses that are registered
          stored,    \* ghost: every <<address, code>> that was ever stored
          unlimited  \* ghost: addresses whose time to live a failure left unset

redis == <<code, ttl, stored, unlimited>>
gate == <<form, account>>
verifyVars == <<made, redis, open, call, mails, gate>>

Codes == 1 .. MaxCodes

\* seen: ghost, what had been stored when the call found no code, or could not look.
Call == [at : {"idle", "get", "set", "expire", "mail", "success", "error"},
         email : Emails \cup {NoCode}, code : Codes \cup {NoCode}, seen : SUBSET Codes]
Form == [at : {"idle", "get", "register", "query", "update"}, kind : {"register", "reset"},
         email : Emails \cup {NoCode}, code : Codes \cup {NoCode}]

NoCall == [at |-> "idle", email |-> NoCode, code |-> NoCode, seen |-> {}]
NoForm == [at |-> "idle", kind |-> "register", email |-> NoCode, code |-> NoCode]

VerifyTypeOK ==
  /\ made \in 0 .. MaxCodes
  /\ code \in [Emails -> Codes \cup {NoCode}]
  /\ ttl \in [Emails -> BOOLEAN] /\ \A e \in Emails : ttl[e] => code[e] # NoCode
  /\ open \in BOOLEAN
  /\ call \in [Calls -> Call]
  /\ mails \cup stored \subseteq Emails \X (1 .. made)
  /\ form \in [Forms -> Form]
  /\ account \cup unlimited \subseteq Emails

VerifyInit ==
  /\ made = 0 /\ mails = {} /\ open = TRUE
  /\ code = [e \in Emails |-> NoCode] /\ ttl = [e \in Emails |-> FALSE]
  /\ stored = {} /\ unlimited = {}
  /\ call = [k \in Calls |-> NoCall]
  /\ form = [f \in Forms |-> NoForm] /\ account = {}
-----------------------------------------------------------------------------
(* Redis *)

\* Mutant: the address is left out of the key.
KeySame(e) == CHOOSE f \in Emails : TRUE

\* code_prefix + email, for both servers.
Key(e) == e

\* How a command ends: executed, executed though the caller sees an error, not
\* executed.  Without a connection no command is executed.
Outcomes == IF open THEN {"ok", "lost", "failed"} ELSE {"failed"}

ExpireCode(e) ==
  /\ ttl[e]
  /\ code' = [code EXCEPT ![e] = NoCode]
  /\ ttl' = [ttl EXCEPT ![e] = FALSE]
  /\ unlimited' = unlimited \ {e}
  /\ UNCHANGED <<made, open, call, mails, gate, stored>>

\* RedisCli.on("error"): quit, and no reconnection (ioredis disconnects).
Quit ==
  /\ open
  /\ open' = FALSE
  /\ UNCHANGED <<made, redis, call, mails, gate>>

\* VerifyServer stops, at any await, and starts again.
Restart ==
  /\ open' = TRUE
  /\ call' = [k \in Calls |-> NoCall]
  /\ unlimited' = unlimited \cup {call[k].email : k \in {j \in Calls : call[j].at = "expire"}}
  /\ UNCHANGED <<made, code, ttl, stored, mails, gate>>
-----------------------------------------------------------------------------
(* VerifyServer *)

Step(k, at) == call' = [call EXCEPT ![k].at = at]

GetVerifyCode(k, e) ==
  /\ call[k].at = "idle"
  /\ made + Cardinality({j \in Calls : call[j].at = "get"}) < MaxCodes
  /\ call' = [call EXCEPT ![k] = [NoCall EXCEPT !.at = "get", !.email = e]]
  /\ UNCHANGED <<made, redis, open, mails, gate>>

\* Mutant: a code is made whether there is one or not.
FoundIgnored(k) == NoCode

Found(k) == code[Key(call[k].email)]

\* GetRedis: an error counts as no code.
GetRedis(k, out) ==
  /\ call[k].at = "get"
  /\ LET c == IF out = "ok" THEN Found(k) ELSE NoCode IN
     IF c # NoCode
     THEN /\ call' = [call EXCEPT ![k].at = "mail", ![k].code = c]
          /\ UNCHANGED made
     ELSE /\ made' = made + 1
          /\ call' = [call EXCEPT ![k].at = "set", ![k].code = made + 1,
                                  ![k].seen = IF out = "ok" THEN {m[2] : m \in stored} ELSE {}]
  /\ UNCHANGED <<redis, open, mails, gate>>

\* Mutant: bres is not looked at.
FalseIgnored == "mail"

\* Where a call goes when SetRedisExpire returns false.
OnFalse == "error"

\* SetRedisExpire, first command: SET also takes away a time to live.
Set(k, out) ==
  /\ call[k].at = "set"
  /\ LET e == Key(call[k].email) IN
     IF out = "failed" THEN UNCHANGED redis ELSE
     /\ code' = [code EXCEPT ![e] = call[k].code]
     /\ ttl' = [ttl EXCEPT ![e] = FALSE]
     /\ stored' = stored \cup {<<call[k].email, call[k].code>>}
     /\ unlimited' = IF out = "lost" THEN unlimited \cup {e} ELSE unlimited \ {e}
  /\ call' = [call EXCEPT ![k].at = IF out = "ok" THEN "expire" ELSE OnFalse, ![k].seen = {}]
  /\ UNCHANGED <<made, open, mails, gate>>

\* Mutant: the time to live is left out.
SetTtlNever(e) == UNCHANGED <<ttl, unlimited>>

\* EXPIRE does nothing to a key that is gone.
SetTtl(e) ==
  /\ ttl' = [ttl EXCEPT ![e] = code[e] # NoCode]
  /\ unlimited' = unlimited \ {e}

\* SetRedisExpire, second command.
SetExpire(k, out) ==
  /\ call[k].at = "expire"
  /\ LET e == Key(call[k].email) IN
     IF out = "failed" THEN unlimited' = unlimited \cup {e} /\ UNCHANGED ttl ELSE SetTtl(e)
  /\ Step(k, IF out = "ok" THEN "mail" ELSE OnFalse)
  /\ UNCHANGED <<made, code, stored, open, mails, gate>>

\* SendMail: a mail may have gone out though sendMail ends with an error.
SendMail(k) ==
  /\ call[k].at = "mail"
  /\ \E sent \in BOOLEAN, ok \in BOOLEAN :
       /\ ok => sent
       /\ mails' = IF sent THEN mails \cup {<<call[k].email, call[k].code>>} ELSE mails
       /\ Step(k, IF ok THEN "success" ELSE "error")
  /\ UNCHANGED <<made, redis, open, gate>>

\* Mutant: callback is called with SUCCESS only.
AnswersOnSuccess == {"success"}

Answers == {"success", "error"}

Answer(k) ==
  /\ call[k].at \in Answers
  /\ call' = [call EXCEPT ![k] = NoCall]
  /\ UNCHANGED <<made, redis, open, mails, gate>>

CallStep(k) ==
  \/ \E out \in Outcomes : GetRedis(k, out) \/ Set(k, out) \/ SetExpire(k, out)
  \/ SendMail(k) \/ Answer(k)
-----------------------------------------------------------------------------
(* GateServer: /user_register and /reset_password *)

Go(f, at) == form' = [form EXCEPT ![f] = IF at = "idle" THEN NoForm ELSE [@ EXCEPT !.at = at]]

\* A client types a code from a mail, not always one to the address it gives.
Submit(f, kind, e, c) ==
  /\ form[f].at = "idle"
  /\ \E m \in mails : m[2] = c
  /\ form' = [form EXCEPT ![f] = [at |-> "get", kind |-> kind, email |-> e, code |-> c]]
  /\ UNCHANGED <<made, redis, open, call, mails, account>>

Matches(f) == code[Key(form[f].email)] = form[f].code

\* RedisMgr::get and the comparison; the code stays in Redis.
CheckCode(f) ==
  /\ form[f].at = "get"
  /\ \/ Matches(f) /\ Go(f, IF form[f].kind = "register" THEN "register" ELSE "query")
     \/ Go(f, "idle")
  /\ UNCHANGED <<made, redis, open, call, mails, account>>

\* regUser: the procedure reg_user refuses a registered address or name.
Register(f) ==
  /\ form[f].at = "register"
  /\ Go(f, "idle")
  /\ \/ form[f].email \notin account /\ account' = account \cup {form[f].email}
     \/ UNCHANGED account
  /\ UNCHANGED <<made, redis, open, call, mails>>

\* resetPassword: queryEmail, and the old password, which must differ; passwords
\* are not modelled.
QueryEmail(f) ==
  /\ form[f].at = "query"
  /\ \/ form[f].email \in account /\ Go(f, "update")
     \/ Go(f, "idle")
  /\ UNCHANGED <<made, redis, open, call, mails, account>>

UpdatePassword(f) ==
  /\ form[f].at = "update"
  /\ Go(f, "idle")
  /\ UNCHANGED <<made, redis, open, call, mails, account>>

VerifyNext ==
  \/ \E e \in Emails : ExpireCode(e)
  \/ Quit \/ Restart
  \/ \E k \in Calls : CallStep(k) \/ \E e \in Emails : GetVerifyCode(k, e)
  \/ \E f \in Forms :
       \/ CheckCode(f) \/ Register(f) \/ QueryEmail(f) \/ UpdatePassword(f)
       \/ \E kind \in {"register", "reset"}, e \in Emails, c \in Codes : Submit(f, kind, e, c)

VerifySpec == VerifyInit /\ [][VerifyNext]_verifyVars

\* Redis answers or the connection breaks, mails end, and the event loop turns.
VerifyFairSpec == VerifySpec /\ \A k \in Calls : WF_verifyVars(CallStep(k))
-----------------------------------------------------------------------------
(* Properties *)

\* An account is only created or given a new password with a code that was mailed
\* to its address, whatever calls overlap, expire or fail and whichever codes of
\* other addresses a client knows.
ChangedWithMailedCode ==
  \A f \in Forms : form[f].at \in {"register", "query", "update"} =>
    <<form[f].email, form[f].code>> \in mails

\* No mail carries a code that was never stored, and that no server would accept: a
\* call whose SET may have failed ends without a mail, and a code that it found had
\* been stored (server.js:13-27).
OnlyStoredMailed == mails \subseteq stored

\* A code without a time to live is left behind only by a failed command or a
\* restart between set and expire, not by calls that overlap: the SET of one takes
\* the time to live of the other away, and puts its own in place.
UnlimitedOnlyByFailure ==
  \A e \in Emails : code[e] # NoCode /\ ~ttl[e] =>
    e \in unlimited \/ \E k \in Calls : call[k].at = "expire" /\ call[k].email = e

\* A code that was mailed stays valid until it expires: it is replaced only by a
\* call that had looked for one before it was stored, or could not look.
ReplacedOnlyByOverlap ==
  [][\A e \in Emails :
       code[e] # NoCode /\ code'[e] \notin {NoCode, code[e]} =>
         \E k \in Calls : /\ call[k].at = "set" /\ call[k].email = e
                         /\ code[e] \notin call[k].seen]_verifyVars

\* Every call is answered, also when Redis or the mail server fails, unless
\* VerifyServer stops first.
EveryCallAnswered ==
  \A k \in Calls : call[k].at # "idle" ~> call[k].at = "idle"
=============================================================================
