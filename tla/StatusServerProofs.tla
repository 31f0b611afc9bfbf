------------------------- MODULE StatusServerProofs -------------------------
(***************************************************************************)
(* Proofs about the two services of the StatusServer, which share nothing. *)
(* LoginToken, for any number of users, calls and tokens: tokens are never *)
(* issued twice, so what a key holds says all about how far its token is   *)
(* used.  Registry, for any servers, any threshold and any drift up to it: *)
(* the count the health check keeps never runs ahead of the rounds that    *)
(* really passed without a heartbeat.                                      *)
(***************************************************************************)
EXTENDS LoginToken, Registry, TLAPS
-----------------------------------------------------------------------------
(* Login tokens *)

Running(k) == call[k].at # "new"

\* What Redis holds for u is the newest token of u, not expired, not used.
StoredInv ==
  \A u \in Users : token[u] # NoToken =>
    /\ token[u] = newest[u]
    /\ token[u] \notin expired
    /\ \A k \in accepted : call[k].tok # token[u]

\* Nothing is known of a token before it is issued.
IssuedInv ==
  /\ \A t \in Tokens : t <= issued => owner[t] \in Users /\ t <= newest[owner[t]]
  /\ \A t \in expired : t <= issued

\* The newest token of a user is its own.
OwnInv ==
  \A u \in Users : newest[u] # 0 => newest[u] \in Tokens /\ owner[newest[u]] = u

\* What a call that runs knows.
CallInv ==
  \A k \in Calls : Running(k) =>
    /\ call[k].uid \in Users /\ call[k].uid = owner[call[k].tok]
    /\ call[k].tok \in Tokens /\ call[k].tok <= issued
    /\ call[k].tok <= call[k].newest
    /\ call[k].newest <= newest[call[k].uid]
    /\ ~call[k].fresh => call[k].tok \in expired
    /\ \A j \in call[k].after : call[j].at = "done"

\* A call that passed the comparison is entitled to.
PassedInv ==
  \A k \in Calls : call[k].at = "del" \/ k \in accepted =>
    /\ call[k].at \in {"del", "done"}
    /\ call[k].tok = call[k].newest
    /\ call[k].fresh
    /\ \A j \in accepted : j \in call[k].after => call[j].tok # call[k].tok

IInv == TypeOK /\ StoredInv /\ IssuedInv /\ OwnInv /\ CallInv /\ PassedInv
-----------------------------------------------------------------------------
LEMMA InitInv == Init => IInv
  <1> SUFFICES ASSUME Init PROVE IInv
    OBVIOUS
  <1>1. TypeOK
    BY TokenAssumption DEF Init, TypeOK, Call, Tokens
  <1>2. StoredInv /\ IssuedInv /\ OwnInv /\ CallInv /\ PassedInv
    BY TokenAssumption
    DEF Init, StoredInv, IssuedInv, OwnInv, CallInv, PassedInv, Running, Tokens
  <1> QED BY <1>1, <1>2 DEF IInv

LEMMA GetChatServerSetInv ==
  ASSUME IInv, NEW u \in Users, GetChatServerSet(u) PROVE IInv'
  <1> USE TokenAssumption DEF IInv, TypeOK
  <1>1. /\ issued' = issued + 1 /\ issued < MaxTokens /\ issued \in Nat
        /\ owner' = [owner EXCEPT ![issued + 1] = u]
        /\ newest' = [newest EXCEPT ![u] = issued + 1]
        /\ token' = [token EXCEPT ![u] = issued + 1]
        /\ UNCHANGED <<expired, call, accepted>>
    BY DEF GetChatServerSet, insertToken
  <1>2. issued + 1 \in Tokens
    BY <1>1 DEF Tokens
  <1>3. \A v \in Users : newest[v] \in Nat /\ newest[v] <= issued /\ newest'[v] >= newest[v]
    BY <1>1
  <1>4. TypeOK'
    BY <1>1, <1>2
  <1>5. StoredInv'
    <2> SUFFICES ASSUME NEW v \in Users, token'[v] # NoToken
                 PROVE  /\ token'[v] = newest'[v] /\ token'[v] \notin expired'
                        /\ \A k \in accepted' : call'[k].tok # token'[v]
      BY DEF StoredInv
    <2>1. CASE v # u
      BY <1>1, <2>1 DEF StoredInv
    <2>2. CASE v = u
      <3>1. issued + 1 \notin expired
        BY <1>1 DEF IssuedInv
      <3>2. ASSUME NEW k \in accepted PROVE call[k].tok # issued + 1
        <4>1. Running(k) /\ k \in Calls
          BY DEF PassedInv, Running
        <4>2. call[k].tok \in Tokens /\ call[k].tok <= issued
          BY <4>1 DEF CallInv
        <4> QED BY <1>1, <4>2 DEF Tokens
      <3> QED BY <1>1, <2>2, <3>1, <3>2
    <2> QED BY <2>1, <2>2
  <1>6. IssuedInv'
    <2>1. ASSUME NEW t \in Tokens, t <= issued'
          PROVE  owner'[t] \in Users /\ t <= newest'[owner'[t]]
      <3>1. CASE t = issued + 1
        BY <1>1, <3>1
      <3>2. CASE t # issued + 1
        <4>1. t <= issued /\ t \in Nat
          BY <1>1, <2>1, <3>2 DEF Tokens
        <4>2. owner'[t] = owner[t] /\ owner[t] \in Users /\ t <= newest[owner[t]]
          BY <1>1, <3>2, <4>1 DEF IssuedInv
        <4>3. newest[owner[t]] <= newest'[owner[t]] /\ newest[owner[t]] \in Nat
              /\ newest'[owner[t]] \in Nat
          BY <1>1, <1>3, <4>2
        <4> QED BY <4>1, <4>2, <4>3
      <3> QED BY <3>1, <3>2
    <2>2. \A t \in expired' : t <= issued'
      BY <1>1 DEF IssuedInv, Tokens
    <2> QED BY <2>1, <2>2 DEF IssuedInv
  <1>7. CallInv'
    <2> SUFFICES ASSUME NEW k \in Calls, Running(k)
                 PROVE  /\ call[k].uid \in Users /\ call[k].uid = owner'[call[k].tok]
                        /\ call[k].tok \in Tokens /\ call[k].tok <= issued'
                        /\ call[k].tok <= call[k].newest
                        /\ call[k].newest <= newest'[call[k].uid]
                        /\ ~call[k].fresh => call[k].tok \in expired
                        /\ \A j \in call[k].after : call[j].at = "done"
      BY <1>1 DEF CallInv, Running
    <2>1. /\ call[k].uid \in Users /\ call[k].uid = owner[call[k].tok]
          /\ call[k].tok \in Tokens /\ call[k].tok <= issued
          /\ call[k].tok <= call[k].newest
          /\ call[k].newest <= newest[call[k].uid]
          /\ ~call[k].fresh => call[k].tok \in expired
          /\ \A j \in call[k].after : call[j].at = "done"
      BY DEF CallInv
    <2>2. call[k].tok \in Nat /\ call[k].newest \in Nat
      BY <2>1 DEF Tokens, Call
    <2>3. newest[call[k].uid] <= newest'[call[k].uid] /\ newest[call[k].uid] \in Nat
          /\ newest'[call[k].uid] \in Nat
      BY <1>1, <1>3, <2>1
    <2>4. call[k].newest <= newest'[call[k].uid]
      BY <2>1, <2>2, <2>3
    <2>5. call[k].tok <= issued'
      BY <1>1, <2>1, <2>2
    <2>6. call[k].tok # issued + 1
      BY <1>1, <2>1, <2>2
    <2>7. owner'[call[k].tok] = owner[call[k].tok]
      BY <1>1, <2>1, <2>6
    <2> QED BY <2>1, <2>4, <2>5, <2>7
  <1>8. PassedInv'
    BY <1>1 DEF PassedInv
  <1>9. OwnInv'
    BY <1>1, <1>2, <1>3 DEF OwnInv
  <1> QED BY <1>4, <1>5, <1>6, <1>7, <1>8, <1>9

LEMMA ExpireInv ==
  ASSUME IInv, NEW u \in Users, Expire(u) PROVE IInv'
  <1> USE TokenAssumption DEF IInv, TypeOK
  <1>1. /\ token[u] \in Tokens
        /\ expired' = expired \cup {token[u]}
        /\ token' = [token EXCEPT ![u] = NoToken]
        /\ UNCHANGED <<issued, owner, newest, call, accepted>>
    BY DEF Expire
  <1>2. token[u] = newest[u] /\ newest[u] <= issued
    BY <1>1 DEF StoredInv, Expire
  <1>3. TypeOK'
    BY <1>1
  <1>4. StoredInv'
    <2> SUFFICES ASSUME NEW v \in Users, token'[v] # NoToken
                 PROVE  /\ token'[v] = newest'[v] /\ token'[v] \notin expired'
                        /\ \A k \in accepted' : call'[k].tok # token'[v]
      BY DEF StoredInv
    <2>1. v # u /\ token'[v] = token[v]
      BY <1>1
    <2>2. token[v] # token[u]
      <3>1. token[v] = newest[v] /\ token[v] \in Tokens
        BY <2>1 DEF StoredInv
      <3>2. owner[token[v]] = v /\ owner[token[u]] = u
        BY <1>1, <1>2, <3>1 DEF OwnInv, Tokens
      <3> QED BY <2>1, <3>2
    <2> QED BY <1>1, <2>1, <2>2 DEF StoredInv
  <1>5. IssuedInv'
    BY <1>1, <1>2 DEF IssuedInv
  <1>6. CallInv' /\ PassedInv' /\ OwnInv'
    BY <1>1 DEF CallInv, PassedInv, OwnInv, Running
  <1> QED BY <1>3, <1>4, <1>5, <1>6

LEMMA CheckTokenInv ==
  ASSUME IInv, NEW k \in Calls, NEW t \in Tokens, CheckToken(k, t) PROVE IInv'
  <1> USE TokenAssumption DEF IInv, TypeOK
  <1> DEFINE c == [at |-> "get", uid |-> owner[t], tok |-> t, newest |-> newest[owner[t]],
                   fresh |-> t \notin expired,
                   after |-> {j \in Calls : call[j].at = "done"}]
  <1>1. /\ call[k].at = "new" /\ t <= issued
        /\ call' = [call EXCEPT ![k] = c]
        /\ UNCHANGED <<issued, owner, newest, token, expired, accepted>>
    BY DEF CheckToken
  <1>2. owner[t] \in Users /\ t <= newest[owner[t]]
    BY <1>1 DEF IssuedInv
  <1>3. newest[owner[t]] \in Nat
    BY <1>2
  <1>4. c \in Call
    BY <1>2, <1>3 DEF Call
  <1>5. TypeOK'
    BY <1>1, <1>4
  <1>6. k \notin accepted
    BY <1>1 DEF PassedInv
  <1>7. \A j \in Calls : j # k => call'[j] = call[j]
    BY <1>1
  <1>8. call'[k] = c
    BY <1>1
  <1>9. StoredInv' /\ IssuedInv' /\ OwnInv'
    BY <1>1, <1>6, <1>7 DEF StoredInv, IssuedInv, OwnInv
  <1>10. CallInv'
    <2> SUFFICES ASSUME NEW j \in Calls, Running(j)'
                 PROVE  /\ call'[j].uid \in Users /\ call'[j].uid = owner[call'[j].tok]
                        /\ call'[j].tok \in Tokens /\ call'[j].tok <= issued
                        /\ call'[j].tok <= call'[j].newest
                        /\ call'[j].newest <= newest[call'[j].uid]
                        /\ ~call'[j].fresh => call'[j].tok \in expired
                        /\ \A i \in call'[j].after : call'[i].at = "done"
      BY <1>1 DEF CallInv
    <2>1. CASE j = k
      <3>1. \A i \in c.after : call'[i].at = "done"
        BY <1>1, <1>7
      <3>2. /\ call'[k].uid = owner[t] /\ call'[k].tok = t
            /\ call'[k].newest = newest[owner[t]]
            /\ call'[k].fresh = (t \notin expired)
            /\ call'[k].after = c.after
        BY <1>8
      <3>3. \A i \in call'[j].after : call'[i].at = "done"
        BY <2>1, <3>1, <3>2, Zenon
      <3>4. newest[owner[t]] <= newest[owner[t]]
        BY <1>3
      <3> HIDE DEF c
      <3> QED BY <1>1, <1>2, <2>1, <3>2, <3>3, <3>4
    <2>2. CASE j # k
      <3>1. Running(j) /\ call'[j] = call[j]
        BY <1>7, <2>2 DEF Running
      <3>2. \A i \in call[j].after : i \in Calls /\ i # k
        BY <1>1, <3>1 DEF CallInv, Call
      <3> QED BY <1>7, <3>1, <3>2 DEF CallInv
    <2> QED BY <2>1, <2>2
  <1>11. PassedInv'
    BY <1>1, <1>6, <1>7, <1>8 DEF PassedInv
  <1> QED BY <1>5, <1>9, <1>10, <1>11

\* The comparison: a match proves that the token is the newest, has not
\* expired and has not been used.
LEMMA CheckTokenGetInv ==
  ASSUME IInv, NEW k \in Calls, CheckTokenGet(k) PROVE IInv'
  <1> USE TokenAssumption DEF IInv, TypeOK
  <1> DEFINE p == IF checkToken(k) THEN "del" ELSE "done"
  <1>1. /\ call[k].at = "get"
        /\ call' = [call EXCEPT ![k].at = p]
        /\ UNCHANGED <<issued, owner, newest, token, expired, accepted>>
    BY DEF CheckTokenGet
  <1>2. /\ \A j \in Calls : j # k => call'[j] = call[j]
        /\ call'[k].at = p
        /\ call'[k].uid = call[k].uid /\ call'[k].tok = call[k].tok
        /\ call'[k].newest = call[k].newest /\ call'[k].fresh = call[k].fresh
        /\ call'[k].after = call[k].after
        /\ call'[k] \in Call
    BY <1>1 DEF Call
  <1>3. TypeOK'
    BY <1>1, <1>2
  <1>4. k \notin accepted
    BY <1>1 DEF PassedInv
  <1>5. StoredInv' /\ IssuedInv' /\ OwnInv'
    BY <1>1, <1>2 DEF StoredInv, IssuedInv, OwnInv
  <1>6. \A i \in Calls : call[i].at = "done" => call'[i].at = "done"
    BY <1>1, <1>2
  <1>7. CallInv'
    <2> SUFFICES ASSUME NEW j \in Calls, Running(j)'
                 PROVE  /\ call'[j].uid \in Users /\ call'[j].uid = owner[call'[j].tok]
                        /\ call'[j].tok \in Tokens /\ call'[j].tok <= issued
                        /\ call'[j].tok <= call'[j].newest
                        /\ call'[j].newest <= newest[call'[j].uid]
                        /\ ~call'[j].fresh => call'[j].tok \in expired
                        /\ \A i \in call'[j].after : call'[i].at = "done"
      BY <1>1 DEF CallInv
    <2>1. Running(j) /\ call'[j].after = call[j].after
      BY <1>1, <1>2 DEF Running
    <2>2. \A i \in call[j].after : i \in Calls
      BY DEF Call
    <2> QED BY <1>2, <1>6, <2>1, <2>2 DEF CallInv
  <1>8. PassedInv'
    <2> SUFFICES ASSUME NEW j \in Calls, call'[j].at = "del" \/ j \in accepted
                 PROVE  /\ call'[j].at \in {"del", "done"}
                        /\ call'[j].tok = call'[j].newest
                        /\ call'[j].fresh
                        /\ \A i \in accepted : i \in call'[j].after =>
                             call'[i].tok # call'[j].tok
      BY <1>1 DEF PassedInv
    <2>1. CASE j # k
      BY <1>2, <2>1 DEF PassedInv
    <2>2. CASE j = k
      <3>1. token[call[k].uid] = call[k].tok
        BY <1>2, <1>4, <2>2 DEF checkToken
      <3>2. /\ Running(k) /\ call[k].uid \in Users /\ call[k].tok \in Tokens
            /\ call[k].tok <= call[k].newest /\ call[k].newest <= newest[call[k].uid]
            /\ ~call[k].fresh => call[k].tok \in expired
        BY <1>1 DEF CallInv, Running
      <3>3. /\ call[k].tok = newest[call[k].uid]
            /\ call[k].tok \notin expired
            /\ \A i \in accepted : call[i].tok # call[k].tok
        BY <3>1, <3>2 DEF StoredInv, Tokens
      <3>4. call[k].tok \in Nat /\ call[k].newest \in Nat
        BY <3>2 DEF Tokens, Call
      <3>5. call[k].tok = call[k].newest
        BY <3>2, <3>3, <3>4
      <3>6. call[k].fresh
        BY <3>2, <3>3 DEF Call
      <3>7. \A i \in accepted : call'[i].tok = call[i].tok
        BY <1>2
      <3>8. call'[k].at \in {"del", "done"}
        BY <1>2
      <3> QED BY <1>2, <2>2, <3>3, <3>5, <3>6, <3>7, <3>8
    <2> QED BY <2>1, <2>2
  <1> QED BY <1>3, <1>5, <1>7, <1>8

\* The removal: the token is gone before the call returns.
LEMMA CheckTokenDelInv ==
  ASSUME IInv, NEW k \in Calls, CheckTokenDel(k) PROVE IInv'
  <1> USE TokenAssumption DEF IInv, TypeOK
  <1>1. /\ call[k].at = "del"
        /\ call' = [call EXCEPT ![k].at = "done"]
        /\ token' = [token EXCEPT ![call[k].uid] = NoToken]
        /\ accepted' = accepted \cup {k}
        /\ UNCHANGED <<issued, owner, newest, expired>>
    BY DEF CheckTokenDel, removeToken
  <1>2. /\ \A j \in Calls : j # k => call'[j] = call[j]
        /\ call'[k].at = "done"
        /\ call'[k].uid = call[k].uid /\ call'[k].tok = call[k].tok
        /\ call'[k].newest = call[k].newest /\ call'[k].fresh = call[k].fresh
        /\ call'[k].after = call[k].after
        /\ call'[k] \in Call
    BY <1>1 DEF Call
  <1>3. /\ Running(k) /\ call[k].uid \in Users /\ call[k].tok \in Tokens
        /\ call[k].tok <= call[k].newest /\ call[k].newest <= newest[call[k].uid]
    BY <1>1 DEF CallInv, Running
  <1>4. TypeOK'
    BY <1>1, <1>2, <1>3
  <1>5. StoredInv'
    <2> SUFFICES ASSUME NEW v \in Users, token'[v] # NoToken
                 PROVE  /\ token'[v] = newest'[v] /\ token'[v] \notin expired'
                        /\ \A j \in accepted' : call'[j].tok # token'[v]
      BY DEF StoredInv
    <2>1. v # call[k].uid /\ token'[v] = token[v]
      BY <1>1, <1>3
    <2>2. call[k].tok # token[v]
      <3>1. owner[call[k].tok] = call[k].uid
        BY <1>3 DEF CallInv
      <3>2. owner[token[v]] = v
        BY <2>1 DEF StoredInv, OwnInv, Tokens
      <3> QED BY <2>1, <3>1, <3>2
    <2> QED BY <1>1, <1>2, <2>1, <2>2 DEF StoredInv
  <1>6. IssuedInv' /\ OwnInv'
    BY <1>1 DEF IssuedInv, OwnInv
  <1>7. \A i \in Calls : call[i].at = "done" => call'[i].at = "done"
    BY <1>1, <1>2
  <1>8. CallInv'
    <2> SUFFICES ASSUME NEW j \in Calls, Running(j)'
                 PROVE  /\ call'[j].uid \in Users /\ call'[j].uid = owner[call'[j].tok]
                        /\ call'[j].tok \in Tokens /\ call'[j].tok <= issued
                        /\ call'[j].tok <= call'[j].newest
                        /\ call'[j].newest <= newest[call'[j].uid]
                        /\ ~call'[j].fresh => call'[j].tok \in expired
                        /\ \A i \in call'[j].after : call'[i].at = "done"
      BY <1>1 DEF CallInv
    <2>1. Running(j) /\ call'[j].after = call[j].after
      BY <1>1, <1>2 DEF Running
    <2>2. \A i \in call[j].after : i \in Calls
      BY DEF Call
    <2> QED BY <1>2, <1>7, <2>1, <2>2 DEF CallInv
  <1>9. PassedInv'
    <2> SUFFICES ASSUME NEW j \in Calls, call'[j].at = "del" \/ j \in accepted'
                 PROVE  /\ call'[j].at \in {"del", "done"}
                        /\ call'[j].tok = call'[j].newest
                        /\ call'[j].fresh
                        /\ \A i \in accepted' : i \in call'[j].after =>
                             call'[i].tok # call'[j].tok
      BY DEF PassedInv
    <2>1. call[j].at = "del" \/ j \in accepted
      BY <1>1, <1>2
    <2>2. /\ call[j].at \in {"del", "done"}
          /\ call[j].tok = call[j].newest
          /\ call[j].fresh
          /\ \A i \in accepted : i \in call[j].after => call[i].tok # call[j].tok
      BY <2>1 DEF PassedInv
    <2>3. k \notin call[j].after
      BY <1>1, <2>1, <2>2 DEF CallInv, Running
    <2> QED BY <1>1, <1>2, <2>2, <2>3
  <1> QED BY <1>4, <1>5, <1>6, <1>8, <1>9

LEMMA NextInv == ASSUME IInv, [Next]_vars PROVE IInv'
  <1>1. CASE UNCHANGED vars
    BY <1>1 DEF vars, IInv, TypeOK, StoredInv, IssuedInv, OwnInv, CallInv, PassedInv,
                Running
  <1>2. CASE Next
    BY <1>2, GetChatServerSetInv, ExpireInv, CheckTokenInv, CheckTokenGetInv,
       CheckTokenDelInv DEF Next
  <1> QED BY <1>1, <1>2

\* The inductive invariant.
THEOREM Invariance == Spec => []IInv
  BY InitInv, NextInv, PTL DEF Spec

\* Every variable keeps its type (StatusServiceImpl).
THEOREM TypeCorrect == Spec => []TypeOK
  BY Invariance, PTL DEF IInv

\* No superseded token is accepted, however the calls overlap
\* (StatusServiceImpl::insertToken, CheckToken).
THEOREM SupersededRefused == Spec => []NoSupersededToken
  <1>1. IInv => NoSupersededToken
    BY DEF IInv, TypeOK, PassedInv, NoSupersededToken
  <1> QED BY <1>1, Invariance, PTL

\* No token that had expired when the call began is accepted
\* (StatusServiceImpl::insertToken, CheckToken).
THEOREM ExpiredRefused == Spec => []NoExpiredToken
  <1>1. IInv => NoExpiredToken
    BY DEF IInv, TypeOK, PassedInv, NoExpiredToken
  <1> QED BY <1>1, Invariance, PTL

\* Once a call has returned SUCCESS, no later call accepts its token
\* (StatusServiceImpl::CheckToken, removeToken).
THEOREM UsedTokenRefused == Spec => []UsedUpOnReturn
  <1>1. IInv => UsedUpOnReturn
    BY DEF IInv, TypeOK, PassedInv, UsedUpOnReturn
  <1> QED BY <1>1, Invariance, PTL
\* Who takes the newest token away is entitled to: a call deletes the key of its
\* user when it held the newest token, or began before that was issued.
LEMMA NewestInv ==
  ASSUME IInv, NewestStaysValid, [Next]_vars PROVE NewestStaysValid'
  <1> USE DEF IInv, TypeOK
  <1> SUFFICES ASSUME NEW u \in Users,
                      newest'[u] # 0, newest'[u] \notin expired', token'[u] # newest'[u]
               PROVE  \E k \in accepted' :
                        call'[k].uid = u /\ (call'[k].tok = newest'[u]
                                             \/ call'[k].newest < newest'[u])
    BY DEF NewestStaysValid
  <1>1. CASE UNCHANGED vars
    BY <1>1 DEF vars, NewestStaysValid
  <1>2. ASSUME NEW v \in Users, GetChatServerSet(v) PROVE v # u
    BY <1>2, TokenAssumption DEF GetChatServerSet, insertToken
  <1>3. ASSUME NEW v \in Users, GetChatServerSet(v) PROVE
          /\ newest[u] # 0 /\ newest[u] \notin expired /\ token[u] # newest[u]
          /\ newest'[u] = newest[u] /\ UNCHANGED <<call, accepted>>
    BY <1>2, <1>3 DEF GetChatServerSet, insertToken
  <1>4. ASSUME NEW v \in Users, Expire(v) PROVE v # u
    BY <1>4 DEF Expire, StoredInv
  <1>5. ASSUME NEW v \in Users, Expire(v) PROVE
          /\ newest[u] # 0 /\ newest[u] \notin expired /\ token[u] # newest[u]
          /\ newest'[u] = newest[u] /\ UNCHANGED <<call, accepted>>
    BY <1>4, <1>5 DEF Expire
  <1>6. CASE \E v \in Users : GetChatServerSet(v) \/ Expire(v)
    BY <1>3, <1>5, <1>6 DEF NewestStaysValid
  <1>7. ASSUME NEW k \in Calls, \/ \E t \in Tokens : CheckToken(k, t)
                                \/ CheckTokenGet(k)
        PROVE  /\ k \notin accepted
               /\ \A j \in Calls : j # k => call'[j] = call[j]
               /\ UNCHANGED <<newest, token, expired, accepted>>
    BY <1>7 DEF CheckToken, CheckTokenGet, PassedInv
  <1>8. CASE \E k \in Calls : \/ \E t \in Tokens : CheckToken(k, t)
                              \/ CheckTokenGet(k)
    BY <1>7, <1>8 DEF NewestStaysValid
  <1>9. CASE \E k \in Calls : CheckTokenDel(k)
    <2>1. PICK k \in Calls : CheckTokenDel(k)
      BY <1>9
    <2>2. /\ call[k].at = "del" /\ accepted' = accepted \cup {k}
          /\ token' = [token EXCEPT ![call[k].uid] = NoToken]
          /\ UNCHANGED <<newest, expired>>
          /\ \A j \in Calls : /\ call'[j].uid = call[j].uid
                              /\ call'[j].tok = call[j].tok
                              /\ call'[j].newest = call[j].newest
      BY <2>1 DEF CheckTokenDel, removeToken, Call
    <2>3. CASE call[k].uid = u
      <3>1. call[k].tok = call[k].newest /\ call[k].newest <= newest[u]
        BY <2>2, <2>3 DEF PassedInv, CallInv, Running
      <3>2. call[k].newest \in Nat /\ newest[u] \in Nat
        BY TokenAssumption DEF Call
      <3> QED BY <2>2, <2>3, <3>1, <3>2
    <2>4. CASE call[k].uid # u
      BY <2>2, <2>4 DEF NewestStaysValid
    <2> QED BY <2>3, <2>4
  <1> QED BY <1>1, <1>6, <1>8, <1>9 DEF Next

\* A user's newest token is good until it is used or expires, unless a call that
\* is older than it is accepted (StatusServiceImpl::insertToken, removeToken).
THEOREM NewestIsValid == Spec => []NewestStaysValid
  <1>1. Init => NewestStaysValid
    BY DEF Init, NewestStaysValid
  <1> QED BY <1>1, NewestInv, Invariance, PTL DEF Spec
-----------------------------------------------------------------------------
(* The registry of chat servers *)

\* missedHeartbeats never exceeds the rounds without a heartbeat.
MissedIsLate == \A n \in registered : missed[n] <= late[n]

RegistryInv == RegistryTypeOK /\ MissedIsLate /\ LiveIsRegistered
-----------------------------------------------------------------------------
LEMMA RegistryInitInv == RegistryInit => RegistryInv
  BY RegistryAssumption
  DEF RegistryInit, Boot, RegistryInv, RegistryTypeOK, Choice, MissedIsLate,
      LiveIsRegistered

\* A server that was heard of within the last MaxMissed rounds is not removed.
LEMMA HeardOfIsKept ==
  ASSUME RegistryInv, NEW n \in registered, late[n] < MaxMissed
  PROVE  ~Gone(n)
  <1>1. missed[n] <= late[n] /\ missed[n] \in Nat /\ late[n] \in Nat
    BY DEF RegistryInv, RegistryTypeOK, MissedIsLate
  <1> QED BY <1>1, RegistryAssumption DEF Gone

LEMMA RegisterInv ==
  ASSUME RegistryInv, NEW n \in Servers, RegisterChatServer(n) PROVE RegistryInv'
  <1>1. RegistryTypeOK'
    BY RegistryAssumption DEF RegistryInv, RegistryTypeOK, RegisterChatServer
  <1>2. MissedIsLate'
    BY DEF RegistryInv, RegistryTypeOK, RegisterChatServer, MissedIsLate
  <1>3. LiveIsRegistered'
    BY DEF RegistryInv, RegistryTypeOK, RegisterChatServer, LiveIsRegistered
  <1> QED BY <1>1, <1>2, <1>3 DEF RegistryInv

LEMMA HeartbeatInv ==
  ASSUME RegistryInv, NEW n \in Servers, Heartbeat(n) PROVE RegistryInv'
  <1>1. RegistryTypeOK'
    BY RegistryAssumption DEF RegistryInv, RegistryTypeOK, Heartbeat
  <1>2. MissedIsLate'
    BY DEF RegistryInv, RegistryTypeOK, Heartbeat, MissedIsLate
  <1>3. LiveIsRegistered'
    BY DEF RegistryInv, Heartbeat, LiveIsRegistered
  <1> QED BY <1>1, <1>2, <1>3 DEF RegistryInv

LEMMA HealthCheckInv == ASSUME RegistryInv, HealthCheck PROVE RegistryInv'
  <1> USE RegistryAssumption DEF RegistryInv, RegistryTypeOK
  <1>1. /\ registered' = {n \in registered : ~Gone(n)}
        /\ missed' = [n \in Servers |-> IF n \in registered' THEN missed[n] + 1 ELSE 0]
        /\ late' = [n \in Servers |-> IF late[n] < LateCap THEN late[n] + 1 ELSE late[n]]
        /\ UNCHANGED <<freeServer, alive, cut, restarts, choice>>
    BY DEF HealthCheck
  <1>2. \A n \in registered' : n \in Servers /\ missed[n] < MaxMissed /\ missed[n] \in Nat
    BY <1>1 DEF Gone
  <1>3. \A n \in Servers : late[n] \in 0 .. LateCap /\ late'[n] \in 0 .. LateCap
    BY <1>1
  <1>4. missed' \in [Servers -> 0 .. MaxMissed]
    BY <1>1, <1>2
  <1>5. late' \in [Servers -> 0 .. LateCap]
    BY <1>1
  <1>6. conns' \in [Servers -> Nat]
    BY DEF HealthCheck
  <1>7. RegistryTypeOK'
    BY <1>1, <1>4, <1>5, <1>6
  <1>8. MissedIsLate'
    <2> SUFFICES ASSUME NEW n \in registered' PROVE missed'[n] <= late'[n]
      BY DEF MissedIsLate
    <2>1. missed'[n] = missed[n] + 1 /\ missed[n] <= late[n] /\ missed[n] < MaxMissed
          /\ missed[n] \in Nat /\ late[n] \in Nat
      BY <1>1, <1>2 DEF MissedIsLate
    <2>2. late'[n] = late[n] + 1 \/ (late'[n] = late[n] /\ late[n] >= LateCap)
      BY <1>1
    <2> QED BY <2>1, <2>2
  <1>9. LiveIsRegistered'
    <2> SUFFICES ASSUME NEW n \in alive \ Flaky, restarts = 0 \/ n \in ConfigServers
                 PROVE  n \in registered'
      BY <1>1 DEF LiveIsRegistered
    <2>1. n \in registered
      BY DEF LiveIsRegistered
    <2>2. late[n] < Drift /\ late[n] \in Nat
      BY DEF HealthCheck
    <2>3. ~Gone(n)
      BY <2>1, <2>2, HeardOfIsKept
    <2> QED BY <1>1, <2>1, <2>3
  <1> QED BY <1>7, <1>8, <1>9

LEMMA GetChatServerInv == ASSUME RegistryInv, GetChatServer PROVE RegistryInv'
  <1> USE RegistryAssumption DEF RegistryInv, RegistryTypeOK
  <1>1. PICK n \in Servers \cup {NoServer} :
          /\ freeServer' = n
          /\ conns' = IF n = NoServer THEN conns ELSE [conns EXCEPT ![n] = @ + 1]
          /\ choice' = [name |-> n, among |-> registered, loads |-> conns]
    BY DEF GetChatServer, choseChatServer
  <1>2. UNCHANGED <<registered, missed, alive, cut, late, restarts>>
    BY DEF GetChatServer
  <1>3. conns' \in [Servers -> Nat] /\ choice' \in Choice
    BY <1>1 DEF Choice
  <1>4. RegistryTypeOK'
    BY <1>1, <1>2, <1>3
  <1> QED BY <1>2, <1>4 DEF MissedIsLate, LiveIsRegistered

LEMMA RestartInv == ASSUME RegistryInv, Restart PROVE RegistryInv'
  <1> USE RegistryAssumption DEF RegistryInv, RegistryTypeOK
  <1>1. /\ registered' = ConfigServers
        /\ missed' = [n \in Servers |-> 0]
        /\ freeServer' \in Servers \cup {NoServer}
        /\ restarts' = restarts + 1
        /\ UNCHANGED <<conns, alive, cut, late, choice>>
    BY DEF Restart, Boot
  <1>2. RegistryTypeOK'
    BY <1>1
  <1> QED BY <1>1, <1>2 DEF MissedIsLate, LiveIsRegistered

LEMMA RegistryNextInv == ASSUME RegistryInv, [RegistryNext]_registryVars PROVE RegistryInv'
  <1>1. ASSUME NEW n \in Servers, Crash(n) \/ Cut(n) \/ Heal(n) PROVE RegistryInv'
    BY <1>1 DEF Crash, Cut, Heal, RegistryInv, RegistryTypeOK, MissedIsLate,
                LiveIsRegistered
  <1>2. CASE UNCHANGED registryVars
    BY <1>2 DEF registryVars, RegistryInv, RegistryTypeOK, MissedIsLate,
                LiveIsRegistered
  <1> QED BY <1>1, <1>2, RegisterInv, HeartbeatInv, HealthCheckInv, GetChatServerInv,
             RestartInv DEF RegistryNext

\* The inductive invariant.
THEOREM RegistryInvariance == RegistrySpec => []RegistryInv
  BY RegistryInitInv, RegistryNextInv, PTL DEF RegistrySpec

\* Every variable keeps its type (StatusServiceImpl).
THEOREM RegistryTypes == RegistrySpec => []RegistryTypeOK
  BY RegistryInvariance, PTL DEF RegistryInv

\* A live server that is never cut off stays registered, if at least one of its
\* heartbeats arrives in any Drift <= MaxMissed rounds of the health check
\* (RegisterChatServer, Heartbeat, startHealthCheck).
THEOREM LiveStays == RegistrySpec => []LiveIsRegistered
  BY RegistryInvariance, PTL DEF RegistryInv

\* No server is removed that was heard of within the last MaxMissed rounds,
\* cut off or not (startHealthCheck).
THEOREM SilentBeforeRemoval == RegistrySpec => RemovedOnlyIfSilent
  <1>1. RegistryInv /\ [RegistryNext]_registryVars =>
          [\A n \in registered \ registered' :
             late[n] >= MaxMissed \/ restarts' # restarts]_registryVars
    <2> SUFFICES ASSUME RegistryInv, RegistryNext, NEW n \in registered \ registered'
                 PROVE  late[n] >= MaxMissed \/ restarts' # restarts
      OBVIOUS
    <2>1. CASE HealthCheck
      <3>1. Gone(n)
        BY <2>1 DEF HealthCheck
      <3>2. late[n] \in Nat /\ MaxMissed \in Nat
        BY RegistryAssumption DEF RegistryInv, RegistryTypeOK
      <3> QED BY <3>1, <3>2, HeardOfIsKept
    <2>2. CASE Restart
      BY <2>2 DEF Restart, RegistryInv, RegistryTypeOK
    <2>3. CASE ~HealthCheck /\ ~Restart
      BY <2>3 DEF RegistryNext, RegisterChatServer, Crash, Cut, Heal, Heartbeat, GetChatServer
    <2> QED BY <2>1, <2>2, <2>3
  <1> QED BY <1>1, RegistryInvariance, PTL DEF RegistrySpec, RemovedOnlyIfSilent
=============================================================================
