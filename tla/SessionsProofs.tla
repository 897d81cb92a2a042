--------------------------- MODULE SessionsProofs ---------------------------
(***************************************************************************)
(* What holds of sign-in and pairing for every set of wallets, keys, nodes *)
(* and requests at once, and for every lifetime.                           *)
(*                                                                         *)
(* The properties are not inductive: that a challenge is unspent has to be *)
(* known while it is pending, and what a request in progress read has to   *)
(* be tied to the challenge that is pending when it commits.               *)
(***************************************************************************)
EXTENDS Sessions, FiniteSetTheorems, TLAPS

Calls ==
    {Free}
    \cup [stage : {"read", "proved"}, challenge : Nat,
          proof : [address : Wallets, key : WalletKeys, signed : Nat]]
    \cup [stage : {"pairing"}, owner : Wallets \cup NodeKeys, role : Roles]

\* Random values are drawn once: ids are below the counter, and distinct.
Drawn ==
    /\ drawn \in [challenges : Nat, codes : Nat]
    /\ calls \in [Slots -> Calls]
    /\ \A c \in challenges : c.id \in 1..drawn.challenges
    /\ \A c, d \in challenges : c.id = d.id => c = d
    /\ \A p \in pairings : p.id \in 1..drawn.codes
    /\ \A p, q \in pairings : p.id = q.id => p = q
    /\ \A s \in sessions : s.token \in minted
                           /\ s.actor \in Wallets \cup NodeKeys
    /\ \A t \in minted :
          /\ t.scope = "account" => t.from \in 1..drawn.challenges
          /\ t.scope = "node" => t.from \in 1..drawn.codes

\* What is still pending has bought nothing yet.
Unspent ==
    /\ \A c \in challenges, t \in minted :
          t.scope = "account" => t.from # c.id
    /\ \A p \in pairings, t \in minted : t.scope = "node" => t.from # p.id

\* A request knows the address of the challenge it read, also when it commits.
Remembered ==
    \A x \in Slots : calls[x].stage \in {"read", "proved"} =>
        /\ calls[x].challenge \in 1..drawn.challenges
        /\ \A c \in challenges : c.id = calls[x].challenge =>
                                    c.address = calls[x].proof.address
        /\ calls[x].stage = "proved" =>
              calls[x].proof.signed = calls[x].challenge

IInv ==
    /\ Drawn /\ Unspent /\ Remembered
    /\ OneSessionPerChallenge /\ NodeSessions

LEMMA InitInv == Init => IInv
  BY DEF Init, IInv, Drawn, Unspent, Remembered, OneSessionPerChallenge,
         NodeSessions, Free, Calls

\* The deletion of exactly one row found a pending challenge.
LEMMA ConsumablePending ==
    ASSUME NEW id, Consumable(id) PROVE Pending(id) # {}
  BY FS_EmptySet DEF Consumable

\* The first purchase from a source is numbered one.
LEMMA FirstToken ==
    ASSUME NEW scope, NEW from,
           \A t \in minted : t.scope = scope => t.from # from
    PROVE  Token(scope, from) = [scope |-> scope, from |-> from, nth |-> 1]
  <1>1. {t \in minted : t.scope = scope /\ t.from = from} = {}
    OBVIOUS
  <1>2. Cardinality({t \in minted : t.scope = scope /\ t.from = from}) = 0
    BY <1>1, FS_EmptySet
  <1> QED
    BY <1>2 DEF Token

LEMMA ChallengeInv == ASSUME IInv, NEW w \in Wallets, Challenge(w) PROVE IInv'
  <1>1. Drawn'
    BY DEF IInv, Drawn, Challenge
  <1>2. Unspent'
    BY DEF IInv, Drawn, Unspent, Challenge
  <1>3. Remembered'
    BY DEF IInv, Drawn, Remembered, Challenge
  <1>4. OneSessionPerChallenge' /\ NodeSessions'
    BY DEF IInv, OneSessionPerChallenge, NodeSessions, Challenge
  <1> QED
    BY <1>1, <1>2, <1>3, <1>4 DEF IInv

LEMMA VerifyInv ==
    ASSUME IInv, NEW x \in Slots,
           \/ \E id \in 1..drawn.challenges, p \in Proofs : VerifyRead(x, id, p)
           \/ VerifyProof(x) \/ Abandon(x)
    PROVE  IInv'
  <1>1. /\ UNCHANGED <<now, tables, registered, drawn, minted>>
        /\ \E c \in Calls : calls' = [calls EXCEPT ![x] = c]
    BY DEF IInv, Drawn, VerifyRead, VerifyProof, Abandon, Calls, Proofs, Free
  <1>2. Drawn' /\ Unspent' /\ OneSessionPerChallenge' /\ NodeSessions'
    BY <1>1 DEF IInv, Drawn, Unspent, OneSessionPerChallenge, NodeSessions,
                tables
  <1>3. Remembered'
    <2>1. CASE \E id \in 1..drawn.challenges, p \in Proofs : VerifyRead(x, id, p)
      BY <2>1 DEF IInv, Drawn, Remembered, VerifyRead, Readable, Pending, tables
    <2>2. CASE VerifyProof(x)
      BY <2>2 DEF IInv, Drawn, Remembered, VerifyProof, tables, Calls, Free
    <2>3. CASE Abandon(x)
      BY <2>3 DEF IInv, Drawn, Remembered, Abandon, Free, tables
    <2> QED
      BY <2>1, <2>2, <2>3
  <1> QED
    BY <1>2, <1>3 DEF IInv

LEMMA CommitInv == ASSUME IInv, NEW x \in Slots, VerifyCommit(x) PROVE IInv'
  <1> DEFINE id == calls[x].challenge
             token == Token("account", id)
             session == [token |-> token, actor |-> calls[x].proof.address,
                         expires |-> now + AccountLife]
  <1>1. PICK c \in challenges : c.id = id
    BY ConsumablePending DEF VerifyCommit, Pending
  <1>2. token = [scope |-> "account", from |-> id, nth |-> 1]
    <2>1. \A t \in minted : t.scope = "account" => t.from # id
      BY <1>1 DEF IInv, Unspent
    <2> QED
      BY <2>1, FirstToken
  <1>3. /\ challenges' = challenges \ Pending(id)
        /\ sessions' = sessions \cup {session}
        /\ minted' = minted \cup {token}
        /\ calls' = [calls EXCEPT ![x] = Free]
        /\ UNCHANGED <<now, pairings, status, nodes, registered, drawn>>
    BY DEF VerifyCommit
  <1>4. \A d \in challenges' : d.id # id
    BY <1>1, <1>3, ConsumablePending DEF IInv, Drawn, Pending, VerifyCommit
  <1>5. calls[x].proof.address \in Wallets
    BY DEF IInv, Drawn, Calls, Free, VerifyCommit
  <1> HIDE DEF token, id
  <1>6. Drawn'
    BY <1>1, <1>2, <1>3, <1>5 DEF IInv, Drawn, Calls
  <1>7. Unspent'
    BY <1>2, <1>3, <1>4 DEF IInv, Unspent
  <1>8. Remembered'
    BY <1>3 DEF IInv, Drawn, Remembered, Free
  <1>9. OneSessionPerChallenge'
    BY <1>1, <1>2, <1>3 DEF IInv, Unspent, OneSessionPerChallenge
  <1>10. NodeSessions'
    BY <1>2, <1>3 DEF IInv, NodeSessions
  <1> QED
    BY <1>6, <1>7, <1>8, <1>9, <1>10 DEF IInv

LEMMA LogoutInv == ASSUME IInv, NEW token, Logout(token) PROVE IInv'
  BY DEF IInv, Drawn, Unspent, Remembered, OneSessionPerChallenge, NodeSessions,
         Logout

LEMMA PairInv ==
    ASSUME IInv, NEW x \in Slots,
           \/ \E token \in minted, r \in Roles : PairRead(x, token, r)
           \/ PairCommit(x)
    PROVE  IInv'
  <1>1. CASE \E token \in minted, r \in Roles : PairRead(x, token, r)
    <2>1. /\ UNCHANGED <<now, tables, registered, drawn, minted>>
          /\ \E c \in Calls : c.stage = "pairing"
                              /\ calls' = [calls EXCEPT ![x] = c]
      BY <1>1 DEF IInv, Drawn, PairRead, Calls, Live
    <2> QED
      BY <2>1 DEF IInv, Drawn, Unspent, Remembered, OneSessionPerChallenge,
                  NodeSessions, tables
  <1>2. CASE PairCommit(x)
    <2>1. Drawn'
      BY <1>2 DEF IInv, Drawn, PairCommit, Calls
    <2>2. Unspent'
      BY <1>2 DEF IInv, Drawn, Unspent, PairCommit
    <2>3. Remembered'
      BY <1>2 DEF IInv, Drawn, Remembered, PairCommit, Free
    <2>4. OneSessionPerChallenge' /\ NodeSessions'
      BY <1>2 DEF IInv, Drawn, OneSessionPerChallenge, NodeSessions, PairCommit
    <2> QED
      BY <2>1, <2>2, <2>3, <2>4 DEF IInv
  <1> QED
    BY <1>1, <1>2

LEMMA RegisterInv ==
    ASSUME IInv, NEW p \in pairings, NEW k \in NodeKeys, Register(p, k)
    PROVE  IInv'
  <1> DEFINE token == Token("node", p.id)
             session == [token |-> token, actor |-> k,
                         expires |-> now + NodeLife]
  <1>1. token = [scope |-> "node", from |-> p.id, nth |-> 1]
    BY FirstToken DEF IInv, Unspent
  <1>2. /\ sessions' = Others(k) \cup {session}
        /\ minted' = minted \cup {token}
        /\ pairings' = pairings \ {p}
        /\ nodes' = {n \in nodes : n.pubkey # k} \cup
              {[pubkey |-> k, owner |-> p.owner, role |-> p.role]}
        /\ status' = {t \in status : t.id # p.id} \cup
              {[id |-> p.id, owner |-> p.owner, expires |-> p.expires,
                node |-> k]}
        /\ UNCHANGED <<now, challenges, accounts, calls, registered, drawn>>
    BY DEF Register
  <1> HIDE DEF token
  <1>3. Drawn'
    BY <1>1, <1>2 DEF IInv, Drawn, Others
  <1>4. Unspent'
    BY <1>1, <1>2 DEF IInv, Drawn, Unspent
  <1>5. Remembered' /\ OneSessionPerChallenge'
    BY <1>1, <1>2 DEF IInv, Remembered, OneSessionPerChallenge
  <1>6. NodeSessions'
    <2>1. \A s, t \in sessions' : s.token.scope = "node"
              /\ t.token.scope = "node" /\ s.actor = t.actor => s = t
      BY <1>2 DEF IInv, NodeSessions, Others
    <2>2. ASSUME NEW s \in sessions', s.token.scope = "node"
          PROVE  /\ s.token.nth = 1
                 /\ \A q \in pairings' : q.id # s.token.from
                 /\ \E n \in nodes', t \in status' :
                       /\ n.pubkey = s.actor /\ t.id = s.token.from
                       /\ t.node = s.actor /\ t.owner = n.owner
      <3>1. CASE s = session
        <4> DEFINE n == [pubkey |-> k, owner |-> p.owner, role |-> p.role]
                   t == [id |-> p.id, owner |-> p.owner,
                         expires |-> p.expires, node |-> k]
        <4>1. s.token.nth = 1 /\ s.token.from = p.id /\ s.actor = k
          BY <1>1, <3>1
        <4>2. \A q \in pairings' : q.id # p.id
          BY <1>2 DEF IInv, Drawn
        <4>3. n \in nodes' /\ t \in status'
          BY <1>2
        <4>4. /\ n.pubkey = k /\ t.id = p.id
              /\ t.node = k /\ t.owner = n.owner
          OBVIOUS
        <4> QED
          BY <4>1, <4>2, <4>3, <4>4
      <3>2. CASE s \in sessions /\ s.actor # k
        <4>1. /\ s.token.nth = 1
              /\ \A q \in pairings : q.id # s.token.from
          BY <2>2, <3>2 DEF IInv, NodeSessions
        <4>2. PICK n \in nodes, t \in status :
                  /\ n.pubkey = s.actor /\ t.id = s.token.from
                  /\ t.node = s.actor /\ t.owner = n.owner
          BY <2>2, <3>2 DEF IInv, NodeSessions
        <4>3. n \in nodes' /\ t \in status'
          BY <1>2, <3>2, <4>1, <4>2
        <4> QED
          BY <1>2, <4>1, <4>2, <4>3
      <3> QED
        BY <1>2, <2>2, <3>1, <3>2 DEF Others
    <2> QED
      BY <2>1, <2>2 DEF NodeSessions
  <1> QED
    BY <1>3, <1>4, <1>5, <1>6 DEF IInv

LEMMA AroundInv ==
    ASSUME IInv,
           \/ Advance \/ Restart \/ UNCHANGED vars
           \/ \E w \in Wallets, k \in WalletKeys : Recredential(w, k)
    PROVE  IInv'
  <1>1. /\ UNCHANGED <<tables, drawn, minted>>
        /\ UNCHANGED calls \/ calls' = [x \in Slots |-> Free]
    BY DEF Advance, Restart, vars, Recredential
  <1>2. Drawn' /\ Unspent' /\ OneSessionPerChallenge' /\ NodeSessions'
    BY <1>1 DEF IInv, Drawn, Unspent, OneSessionPerChallenge, NodeSessions,
                tables, Calls
  <1>3. Remembered'
    BY <1>1 DEF IInv, Remembered, tables, Free
  <1> QED
    BY <1>2, <1>3 DEF IInv

LEMMA NextInv == ASSUME IInv, [Next]_vars PROVE IInv'
  <1>1. CASE SignIn
    BY <1>1, ChallengeInv, VerifyInv, CommitInv, LogoutInv DEF SignIn
  <1>2. CASE Pairing
    BY <1>2, PairInv, RegisterInv DEF Pairing
  <1> QED
    BY <1>1, <1>2, AroundInv DEF Next

LEMMA InvHolds == Spec => []IInv
  BY InitInv, NextInv, PTL DEF Spec

(***************************************************************************)
(* A challenge buys one session at most, for every number of requests that *)
(* race for it (auth::verify).                                             *)
(***************************************************************************)
THEOREM OneSession == Spec => []OneSessionPerChallenge
  <1>1. IInv => OneSessionPerChallenge
    BY DEF IInv
  <1> QED
    BY <1>1, InvHolds, PTL

(***************************************************************************)
(* A node holds one session, bought with a code of its own wallet          *)
(* (nodes::register).                                                      *)
(***************************************************************************)
THEOREM NodeSessionsHold == Spec => []NodeSessions
  <1>1. IInv => NodeSessions
    BY DEF IInv
  <1> QED
    BY <1>1, InvHolds, PTL

(***************************************************************************)
(* No step but the answer to a proved request makes a wallet session, and  *)
(* it consumes the address's own unexpired challenge (auth::verify).       *)
(***************************************************************************)
NewSession(s) ==
    /\ \E c \in challenges :
          /\ c.id = s.token.from /\ c.address = s.actor
          /\ c.expires > now
          /\ c \notin challenges'
    /\ \E x \in Slots :
          /\ calls[x].stage = "proved"
          /\ calls[x].proof.address = s.actor
          /\ calls[x].proof.signed = s.token.from

LEMMA CommitNew ==
    ASSUME IInv, NEW x \in Slots, VerifyCommit(x),
           NEW s \in sessions' \ sessions
    PROVE  NewSession(s)
  <1> DEFINE id == calls[x].challenge
  <1>1. PICK c \in Pending(id) : TRUE
    BY ConsumablePending DEF VerifyCommit
  <1>2. /\ calls[x].stage = "proved"
        /\ s.actor = calls[x].proof.address
        /\ s.token = Token("account", id)
        /\ challenges' = challenges \ Pending(id)
    BY DEF VerifyCommit
  <1>3. s.token.from = id
    BY <1>2 DEF Token
  <1>4. c \in challenges /\ c.id = id /\ c.expires > now /\ c \notin challenges'
    BY <1>1, <1>2 DEF Pending
  <1>5. c.address = s.actor /\ calls[x].proof.signed = id
    BY <1>2, <1>4 DEF IInv, Remembered
  <1> QED
    BY <1>2, <1>3, <1>4, <1>5 DEF NewSession

LEMMA NextNew ==
    ASSUME IInv, [Next]_vars,
           NEW s \in sessions' \ sessions, s.token.scope = "account"
    PROVE  NewSession(s)
  <1>1. CASE \E x \in Slots : VerifyCommit(x)
    BY <1>1, CommitNew
  <1>2. CASE \E p \in pairings, k \in NodeKeys : Register(p, k)
    BY <1>2 DEF Register, Others, Token
  <1>3. CASE UNCHANGED sessions
    BY <1>3
  <1>4. CASE sessions' \subseteq sessions
    BY <1>4
  <1>5. \/ \E x \in Slots : VerifyCommit(x)
        \/ \E p \in pairings, k \in NodeKeys : Register(p, k)
        \/ UNCHANGED sessions
        \/ sessions' \subseteq sessions
    BY DEF Next, SignIn, Pairing, vars, tables, Challenge, VerifyRead,
           VerifyProof, Abandon, Logout, PairRead, PairCommit, Advance,
           Recredential, Restart
  <1> QED
    BY <1>1, <1>2, <1>3, <1>4, <1>5

THEOREM SessionsFromProofs == Spec => SessionFromProof
  <1>1. ASSUME IInv, [Next]_vars
        PROVE  [\A s \in sessions' \ sessions : s.token.scope = "account" =>
                   NewSession(s)]_vars
    BY <1>1, NextNew
  <1> QED
    BY <1>1, InvHolds, PTL DEF Spec, SessionFromProof, NewSession
=============================================================================
