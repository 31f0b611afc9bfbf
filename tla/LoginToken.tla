----------------------------- MODULE LoginToken -----------------------------
(***************************************************************************)
(* StatusServer/StatusServiceImpl.cpp: login tokens.  GateServer asks for  *)
(* a chat server and gets a token with it; the client shows the token to   *)
(* the chat server, which has it checked.  The gRPC server runs each call  *)
(* on a thread of its own and the two calls share nothing but the Redis    *)
(* key token_<uid>, so they interleave at every Redis command:             *)
(*   GetChatServer   insertToken (set with a time to live)                 *)
(*   CheckToken      checkToken (get), then removeToken (del) if it        *)
(*                   matched                                               *)
(* The choice of the chat server is module Registry.  A token is a number, *)
(* new for each call as a UUID is; Redis commands succeed.                 *)
(***************************************************************************)
EXTENDS Integers

CONSTANTS Users,      \* uids
          Calls,      \* CheckToken calls that may be made
          MaxTokens,  \* bound: tokens issued
          NoToken

ASSUME TokenAssumption == MaxTokens \in Nat /\ NoToken \notin Nat

VARIABLES issued,   \* tokens issued so far: token t belongs to owner[t]
          owner,
          newest,   \* ghost: the token last issued to each user, 0 if none
          token,    \* the key token_<uid> in Redis
          expired,  \* ghost: tokens whose time to live ran out in Redis
          call,     \* the CheckToken calls: where each is, and with what
          accepted  \* ghost: the calls that returned SUCCESS

vars == <<issued, owner, newest, token, expired, call, accepted>>

Tokens == 1 .. MaxTokens

\* Ghost fields, about the moment the call began: the newest token of uid,
\* whether tok had not expired, and the calls that had returned.
Call == [at : {"new", "get", "del", "done"}, uid : Users \cup {NoToken},
         tok : Tokens \cup {NoToken}, newest : Nat, fresh : BOOLEAN,
         after : SUBSET Calls]

TypeOK ==
  /\ issued \in 0 .. MaxTokens
  /\ owner \in [Tokens -> Users \cup {NoToken}]
  /\ newest \in [Users -> 0 .. issued]
  /\ token \in [Users -> Tokens \cup {NoToken}]
  /\ expired \subseteq Tokens
  /\ call \in [Calls -> Call]
  /\ accepted \subseteq Calls

Init ==
  /\ issued = 0
  /\ owner = [t \in Tokens |-> NoToken]
  /\ newest = [u \in Users |-> 0]
  /\ token = [u \in Users |-> NoToken]
  /\ expired = {}
  /\ call = [k \in Calls |-> [at |-> "new", uid |-> NoToken, tok |-> NoToken,
                              newest |-> 0, fresh |-> TRUE, after |-> {}]]
  /\ accepted = {}

\* Mutant: an existing token is kept (set NX).
insertTokenIfNone(u, t) ==
  token' = [token EXCEPT ![u] = IF @ = NoToken THEN t ELSE @]

insertToken(u, t) == token' = [token EXCEPT ![u] = t]

\* GetChatServer: a new token for u, in Redis before the answer is sent.
GetChatServerSet(u) ==
  /\ issued < MaxTokens
  /\ issued' = issued + 1
  /\ owner' = [owner EXCEPT ![issued + 1] = u]
  /\ newest' = [newest EXCEPT ![u] = issued + 1]
  /\ insertToken(u, issued + 1)
  /\ UNCHANGED <<expired, call, accepted>>

\* The time to live of a key runs out.
Expire(u) ==
  /\ token[u] # NoToken
  /\ expired' = expired \cup {token[u]}
  /\ token' = [token EXCEPT ![u] = NoToken]
  /\ UNCHANGED <<issued, owner, newest, call, accepted>>

\* A client shows a token; it may show it more than once.
CheckToken(k, t) ==
  /\ call[k].at = "new"
  /\ t <= issued
  /\ call' = [call EXCEPT ![k] =
       [at |-> "get", uid |-> owner[t], tok |-> t, newest |-> newest[owner[t]],
        fresh |-> t \notin expired,
        after |-> {j \in Calls : call[j].at = "done"}]]
  /\ UNCHANGED <<issued, owner, newest, token, expired, accepted>>

checkToken(k) == token[call[k].uid] = call[k].tok

\* Mutant: a token that does not match is removed, too.
CheckTokenGetRemoves(k) ==
  /\ call[k].at = "get"
  /\ call' = [call EXCEPT ![k].at = IF checkToken(k) THEN "del" ELSE "done"]
  /\ token' = [token EXCEPT ![call[k].uid] = IF checkToken(k) THEN @ ELSE NoToken]
  /\ UNCHANGED <<issued, owner, newest, expired, accepted>>

CheckTokenGet(k) ==
  /\ call[k].at = "get"
  /\ call' = [call EXCEPT ![k].at = IF checkToken(k) THEN "del" ELSE "done"]
  /\ UNCHANGED <<issued, owner, newest, token, expired, accepted>>

\* Mutant: the token is not removed.
removeTokenForgotten(k) == UNCHANGED token

\* removeToken: by uid, whatever token is stored by now.
removeToken(k) == token' = [token EXCEPT ![call[k].uid] = NoToken]

CheckTokenDel(k) ==
  /\ call[k].at = "del"
  /\ removeToken(k)
  /\ call' = [call EXCEPT ![k].at = "done"]
  /\ accepted' = accepted \cup {k}
  /\ UNCHANGED <<issued, owner, newest, expired>>

Next ==
  \/ \E u \in Users : GetChatServerSet(u) \/ Expire(u)
  \/ \E k \in Calls : \/ \E t \in Tokens : CheckToken(k, t)
                      \/ CheckTokenGet(k) \/ CheckTokenDel(k)

Spec == Init /\ [][Next]_vars
-----------------------------------------------------------------------------
(* Properties *)

\* A token that had been replaced by a newer one of its user before the call
\* began is refused (insertToken overwrites, checkToken compares).
NoSupersededToken == \A k \in accepted : call[k].tok = call[k].newest

\* A token that was accepted is refused in every call that begins after the
\* accepting one returned (CheckToken removes the token before it answers).
UsedUpOnReturn ==
  \A j, k \in accepted : call[j].tok = call[k].tok => j \notin call[k].after

\* A token that had expired before the call began is refused (insertToken sets
\* the time to live with the token).
NoExpiredToken == \A k \in accepted : call[k].fresh

\* The newest token of a user stays valid until it is used or expires, unless a
\* call that began before it was issued is accepted: removeToken deletes the key
\* of the uid, whatever is in it by then.
NewestStaysValid ==
  \A u \in Users :
    newest[u] # 0 /\ newest[u] \notin expired /\ token[u] # newest[u] =>
      \E k \in accepted :
        call[k].uid = u /\ (call[k].tok = newest[u] \/ call[k].newest < newest[u])
=============================================================================
