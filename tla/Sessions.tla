------------------------------ MODULE Sessions ------------------------------
(***************************************************************************)
(* How a wallet buys a session from the coordinator with a signed          *)
(* challenge, and how its node buys one with a pairing code.               *)
(*                                                                         *)
(* Sign-in is two SQLite transactions with an await between them: the      *)
(* first reads the challenge, then the wallet's proof is checked (for a    *)
(* JoyID wallet at the credential service), and the second consumes the    *)
(* challenge and inserts the session.  Other requests run in between, so   *)
(* a request in progress is a slot of `calls'.  Everything but `calls' is  *)
(* in SQLite and survives a restart.                                       *)
(***************************************************************************)
EXTENDS Integers, FiniteSets

CONSTANTS
    Wallets,        \* CKB addresses that sign in
    Native,         \* the key of each wallet whose address is its key's hash
    WalletKeys,     \* keys wallets sign with
    NodeKeys,       \* public keys of Fiber nodes
    Roles,          \* "provider" and "merchant"
    Slots,          \* requests the coordinator serves at once
    None            \* an absent optional value

CONSTANTS
    ChallengeLife,  \* 300 s in the code
    AccountLife,    \* 12 h in the code
    PairingLife,    \* 600 s in the code
    NodeLife,       \* 90 days in the code
    MaxPending,     \* 10 in the code: challenges kept for one address
    MaxChallenges,  \* bound on the challenges ever drawn
    MaxCodes,       \* bound on the pairing codes ever drawn
    MaxClock        \* bound on the clock

ASSUME NativeAssumption ==
    DOMAIN Native \subseteq Wallets
    /\ \A w \in DOMAIN Native : Native[w] \in WalletKeys
ASSUME LifeAssumption ==
    {ChallengeLife, AccountLife, PairingLife, NodeLife} \subseteq Nat \ {0}

VARIABLES
    now,            \* the clock, in whole seconds
    challenges,     \* challenges not yet consumed or swept
    sessions,       \* live and expired sessions not yet swept
    accounts,       \* created_at of each wallet that signed in
    pairings,       \* pairing codes not yet used
    status,         \* what became of each pairing code
    nodes,          \* paired nodes
    calls,          \* requests between two transactions
    registered,     \* external: JoyID credentials, <<address, key>>
    drawn,          \* how many challenges and codes were drawn
    minted          \* history: every session token ever handed out

tables == <<challenges, sessions, accounts, pairings, status, nodes>>
vars == <<now, tables, calls, registered, drawn, minted>>

Free == [stage |-> "free"]

(***************************************************************************)
(* A token is random, hence never repeated: it is named for the challenge  *)
(* or the pairing it was bought with and the order of its purchase.        *)
(***************************************************************************)
Token(scope, from) ==
    [scope |-> scope, from |-> from,
     nth |-> 1 + Cardinality({t \in minted : t.scope = scope
                                             /\ t.from = from})]

\* The token is in the table, has this scope, and has not expired.
Live(token, scope) ==
    {s \in sessions : s.token = token /\ token.scope = scope
                      /\ s.expires > now}

(***************************************************************************)
(* The coordinator sweeps what has expired, and then keeps a new challenge *)
(* unless the address already has too many.                                *)
(***************************************************************************)
Challenge(w) ==
    LET kept == {c \in challenges : c.expires >= now}
    IN  /\ drawn.challenges < MaxChallenges
        /\ Cardinality({c \in kept : c.address = w}) < MaxPending
        /\ challenges' = kept \cup
              {[id |-> drawn.challenges + 1, address |-> w,
                expires |-> now + ChallengeLife]}
        /\ sessions' = {s \in sessions : s.expires >= now}
        /\ drawn' = [drawn EXCEPT !.challenges = @ + 1]
        /\ UNCHANGED <<now, accounts, pairings, status, nodes, calls,
                       registered, minted>>

(***************************************************************************)
(* What a wallet sends: the address it claims, the key it signed with and  *)
(* the challenge whose message it signed.  The message holds the           *)
(* challenge's id and a nonce, so two challenges never share one.          *)
(***************************************************************************)
Proofs == [address : Wallets, key : WalletKeys, signed : 1..drawn.challenges]

Pending(id) == {c \in challenges : c.id = id /\ c.expires > now}

\* The signing key belongs to the address.
Bound(proof) ==
    IF proof.address \in DOMAIN Native
    THEN proof.key = Native[proof.address]
    ELSE <<proof.address, proof.key>> \in registered

\* A sign-in may begin: the challenge is pending, for the claimed address.
ReadableUnbound(id, proof) == \E c \in Pending(id) : TRUE
Readable(id, proof) == \E c \in Pending(id) : c.address = proof.address

VerifyRead(x, id, proof) ==
    /\ calls[x] = Free
    /\ Readable(id, proof)
    /\ calls' = [calls EXCEPT ![x] =
                    [stage |-> "read", challenge |-> id, proof |-> proof]]
    /\ UNCHANGED <<now, tables, registered, drawn, minted>>

\* The proof signs the challenge that was read, with a key of the address.
VerifyProof(x) ==
    /\ calls[x].stage = "read"
    /\ calls[x].proof.signed = calls[x].challenge
    /\ Bound(calls[x].proof)
    /\ calls' = [calls EXCEPT ![x].stage = "proved"]
    /\ UNCHANGED <<now, tables, registered, drawn, minted>>

\* Deleting the challenge deletes exactly one row.
ConsumableRead(id) == id \in 1..drawn.challenges
Consumable(id) == Cardinality(Pending(id)) = 1

VerifyCommit(x) ==
    /\ calls[x].stage = "proved"
    /\ Consumable(calls[x].challenge)
    /\ LET id == calls[x].challenge
           token == Token("account", id)
           address == calls[x].proof.address
       IN  /\ challenges' = challenges \ Pending(id)
           /\ accounts' = [accounts EXCEPT ![address] = now]
           /\ sessions' = sessions \cup
                 {[token |-> token, actor |-> address,
                   expires |-> now + AccountLife]}
           /\ minted' = minted \cup {token}
    /\ calls' = [calls EXCEPT ![x] = Free]
    /\ UNCHANGED <<now, pairings, status, nodes, registered, drawn>>

\* The request fails: a wrong proof, a service error, a challenge consumed.
Abandon(x) ==
    /\ calls[x] # Free
    /\ calls' = [calls EXCEPT ![x] = Free]
    /\ UNCHANGED <<now, tables, registered, drawn, minted>>

Logout(token) ==
    /\ \E s \in sessions : s.token = token
    /\ sessions' = {s \in sessions : s.token # token}
    /\ UNCHANGED <<now, challenges, accounts, pairings, status, nodes, calls,
                   registered, drawn, minted>>

(***************************************************************************)
(* A signed-in wallet draws a pairing code for a node of a role.  The      *)
(* session is checked in a transaction of its own, before the code's.      *)
(***************************************************************************)
PairRead(x, token, role) ==
    /\ calls[x] = Free
    /\ \E s \in Live(token, "account") :
          calls' = [calls EXCEPT ![x] =
                       [stage |-> "pairing", owner |-> s.actor, role |-> role]]
    /\ UNCHANGED <<now, tables, registered, drawn, minted>>

PairCommit(x) ==
    /\ calls[x].stage = "pairing"
    /\ drawn.codes < MaxCodes
    /\ LET code == drawn.codes + 1
       IN  /\ pairings' = pairings \cup
                 {[id |-> code, owner |-> calls[x].owner,
                   role |-> calls[x].role, expires |-> now + PairingLife]}
           /\ status' = status \cup
                 {[id |-> code, owner |-> calls[x].owner,
                   expires |-> now + PairingLife, node |-> None]}
           /\ drawn' = [drawn EXCEPT !.codes = code]
    /\ calls' = [calls EXCEPT ![x] = Free]
    /\ UNCHANGED <<now, challenges, sessions, accounts, nodes, registered,
                   minted>>

(***************************************************************************)
(* A connector registers its node with the code, in one transaction.  A    *)
(* node known by its public key keeps its id, and must keep its owner and  *)
(* role; a node is named here for its public key.  The code is used up and *)
(* the node's earlier sessions end.                                        *)
(***************************************************************************)
Belongs(key, pairing) ==
    \A n \in nodes : n.pubkey = key =>
                        n.owner = pairing.owner /\ n.role = pairing.role

\* The sessions that stay when the node registers.
OthersUnexpired(key) ==
    {s \in sessions : s.token.scope = "node" /\ s.actor = key
                      => s.expires > now}
Others(key) ==
    {s \in sessions : s.token.scope = "node" => s.actor # key}

Register(pairing, key) ==
    LET token == Token("node", pairing.id)
    IN  /\ pairing.expires > now
        /\ Belongs(key, pairing)
        /\ nodes' = {n \in nodes : n.pubkey # key} \cup
              {[pubkey |-> key, owner |-> pairing.owner,
                role |-> pairing.role]}
        /\ status' = {t \in status : t.id # pairing.id} \cup
              {[id |-> pairing.id, owner |-> pairing.owner,
                expires |-> pairing.expires, node |-> key]}
        /\ pairings' = pairings \ {pairing}
        /\ sessions' = Others(key) \cup
              {[token |-> token, actor |-> key, expires |-> now + NodeLife]}
        /\ minted' = minted \cup {token}
        /\ UNCHANGED <<now, challenges, accounts, calls, registered, drawn>>

(***************************************************************************)
(* Around the coordinator: the clock, the credential service, a restart.   *)
(***************************************************************************)
Advance ==
    /\ now < MaxClock
    /\ now' = now + 1
    /\ UNCHANGED <<tables, calls, registered, drawn, minted>>

\* A user of the credential service adds a key to an address, or removes it.
Recredential(w, k) ==
    /\ w \notin DOMAIN Native
    /\ registered' = (registered \ {<<w, k>>})
                        \cup ({<<w, k>>} \ registered)
    /\ UNCHANGED <<now, tables, calls, drawn, minted>>

Restart ==
    /\ \E x \in Slots : calls[x] # Free
    /\ calls' = [x \in Slots |-> Free]
    /\ UNCHANGED <<now, tables, registered, drawn, minted>>

Init ==
    /\ now = 0
    /\ challenges = {} /\ sessions = {} /\ pairings = {} /\ status = {}
    /\ accounts = [w \in Wallets |-> None]
    /\ nodes = {}
    /\ calls = [x \in Slots |-> Free]
    /\ registered \in SUBSET ((Wallets \ DOMAIN Native) \X WalletKeys)
    /\ drawn = [challenges |-> 0, codes |-> 0]
    /\ minted = {}

SignIn ==
    \/ \E w \in Wallets : Challenge(w)
    \/ \E x \in Slots, id \in 1..drawn.challenges, p \in Proofs :
          VerifyRead(x, id, p)
    \/ \E x \in Slots : VerifyProof(x) \/ VerifyCommit(x) \/ Abandon(x)
    \/ \E token \in minted : Logout(token)

Pairing ==
    \/ \E x \in Slots, token \in minted, r \in Roles : PairRead(x, token, r)
    \/ \E x \in Slots : PairCommit(x)
    \/ \E p \in pairings, k \in NodeKeys : Register(p, k)

Next ==
    \/ SignIn
    \/ Pairing
    \/ Advance
    \/ \E w \in Wallets, k \in WalletKeys : Recredential(w, k)
    \/ Restart

Spec == Init /\ [][Next]_vars

-----------------------------------------------------------------------------
(* One signed challenge buys at most one session, ever: requests that both *)
(* read it before either consumed it, a retry after an answer was lost, a  *)
(* sign-out in between and a restart do not make it buy a second           *)
(* (auth::verify consumes it in the transaction that inserts the session). *)
OneSessionPerChallenge ==
    \A s, t \in minted :
        s.scope = "account" /\ t.scope = "account" /\ s.from = t.from
            => s = t

(* A wallet session appears only at a moment when the challenge it was     *)
(* bought with is still unexpired and unconsumed, belongs to the very      *)
(* address that signs in, and was signed by the request that is answered:  *)
(* what the first transaction read is not trusted by the second.           *)
SessionFromProof ==
    [][\A s \in sessions' \ sessions : s.token.scope = "account" =>
          /\ \E c \in challenges :
                /\ c.id = s.token.from /\ c.address = s.actor
                /\ c.expires > now
                /\ c \notin challenges'
          /\ \E x \in Slots :
                /\ calls[x].stage = "proved"
                /\ calls[x].proof.address = s.actor
                /\ calls[x].proof.signed = s.token.from]_vars

(* A node holds one session at a time, bought with a code its own wallet   *)
(* drew for its role: registering it again ends the earlier session, a     *)
(* code buys one session only, and the status its wallet polls names the   *)
(* node (nodes::register).                                                 *)
NodeSessions ==
    /\ \A s, t \in sessions :
          s.token.scope = "node" /\ t.token.scope = "node"
          /\ s.actor = t.actor => s = t
    /\ \A s \in sessions : s.token.scope = "node" =>
          /\ s.token.nth = 1
          /\ \A p \in pairings : p.id # s.token.from
          /\ \E n \in nodes, t \in status :
                /\ n.pubkey = s.actor /\ t.id = s.token.from
                /\ t.node = s.actor /\ t.owner = n.owner
=============================================================================
