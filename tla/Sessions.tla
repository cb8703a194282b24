------------------------------ MODULE Sessions ------------------------------
(***************************************************************************)
(* The sessions of one user (auth.service.ts).  A refresh replaces the     *)
(* token of the row it was given; a lock in Redis, which may be            *)
(* unavailable, sends a second refresh with the same token to a row of its *)
(* own.  Tokens are numbered in the order they are signed, the order of    *)
(* expiresAt, and a row by its first token.  issueTokens stores a token in *)
(* a transaction at READ COMMITTED: what it writes is its own until it     *)
(* commits, and a row it has written is locked until then.                 *)
(***************************************************************************)
EXTENDS Naturals, FiniteSets, Functions, Handlers

CONSTANTS
    Device,       \* browsers and phones of the user
    MaxSessions,  \* MAX_SESSIONS
    MaxTokens     \* bound on the tokens that are signed

ASSUME SessionsAssumption == MaxSessions \in Nat \ {0} /\ MaxTokens \in Nat

VARIABLES
    session,  \* committed rows: id |-> token
    signed,   \* number of tokens signed so far
    locked,   \* tokens whose refresh lock is held
    holds,    \* device |-> the token it was last given, 0 when it signed out
    unheard,  \* history: devices whose last token was replaced without an answer
    overtook  \* history: devices whose last token went into a row that another
              \* transaction had listed as one to remove

sessionsVars == <<session, signed, locked, holds, unheard, overtook, call>>

SessionsInit ==
    /\ session = << >>
    /\ signed = 0
    /\ locked = {}
    /\ holds = [d \in Device |-> 0]
    /\ unheard = {} /\ overtook = {}
    /\ HandlersInit

(* A handler signs a token and is about to store it. *)
Sign(token, replaces, lock) ==
    [at |-> "store", device |-> token.device, token |-> token.number,
     replaces |-> replaces, lock |-> lock]

SignIn(c, d) ==
    /\ signed < MaxTokens
    /\ signed' = signed + 1
    /\ Enter(c, Sign([device |-> d, number |-> signed'], 0, FALSE))
    /\ UNCHANGED <<session, locked, holds, unheard, overtook>>

(* The guard of the route looks for the row of the token first. *)
RequestRefresh(c, d) ==
    /\ holds[d] \in Range(session)
    /\ Enter(c, [at |-> "lock", device |-> d, token |-> holds[d]])
    /\ UNCHANGED <<session, signed, locked, holds, unheard, overtook>>

(* Without the lock, because it is held or Redis fails, nothing is replaced. *)
LockToken(c) ==
    /\ At(c, "lock")
    /\ signed < MaxTokens
    /\ signed' = signed + 1
    /\ \/ /\ call[c].token \notin locked
          /\ locked' = locked \cup {call[c].token}
          /\ Step(c, Sign([device |-> call[c].device, number |-> signed'], call[c].token, TRUE))
       \/ /\ UNCHANGED locked
          /\ Step(c, Sign([device |-> call[c].device, number |-> signed'], 0, FALSE))
    /\ UNCHANGED <<session, holds, unheard, overtook>>

(* The lock ends by itself after ten seconds, and may do so early. *)
LockEnds(t) ==
    /\ t \in locked
    /\ locked' = locked \ {t}
    /\ UNCHANGED <<session, signed, holds, unheard, overtook, call>>

(* The rows that a transaction which has stored its token holds locked.      *)
Written(r) == \E c \in Call : call[c].at \in {"list", "commit"} /\ call[c].row = r

(* The transaction has written its token to a row, and lists the rows next.  *)
Write(c, r) ==
    Step(c, [at |-> "list", device |-> call[c].device, token |-> call[c].token,
             replaces |-> call[c].replaces, lock |-> call[c].lock, row |-> r])

(* Mutant: a row that is gone is not made again. *)
UpdateRowOnly(c) ==
    /\ At(c, "store")
    /\ \/ \E r \in DOMAIN session :
            session[r] = call[c].replaces /\ ~Written(r) /\ Write(c, r) /\ UNCHANGED holds
       \/ call[c].replaces = 0 /\ Write(c, call[c].token) /\ UNCHANGED holds
       \/ /\ call[c].replaces \notin Range(session) \cup {0}
          /\ holds' = [holds EXCEPT ![call[c].device] = call[c].token]
          /\ Return(c)
    /\ UNCHANGED <<session, signed, locked, unheard, overtook>>

(* The row of the old token becomes that of the new one, once no other       *)
(* transaction holds it; if it is gone, or there was none, one is made.      *)
StoreToken(c) ==
    /\ At(c, "store")
    /\ \/ \E r \in DOMAIN session :
            session[r] = call[c].replaces /\ ~Written(r) /\ Write(c, r)
       \/ call[c].replaces \notin Range(session) /\ Write(c, call[c].token)
    /\ UNCHANGED <<session, signed, locked, holds, unheard, overtook>>

(* What the transaction sees: the committed rows and its own. *)
Seen(c) == [r \in DOMAIN session \cup {call[c].row} |->
              IF r = call[c].row THEN call[c].token ELSE session[r]]

(* The oldest rows, beyond the limit. *)
Excess(rows) ==
    {r \in DOMAIN rows : Cardinality({u \in DOMAIN rows : rows[u] > rows[r]}) >= MaxSessions}

ListRows(c) ==
    /\ At(c, "list")
    /\ Step(c, [at |-> "commit", device |-> call[c].device, token |-> call[c].token,
                replaces |-> call[c].replaces, lock |-> call[c].lock, row |-> call[c].row,
                excess |-> Excess(Seen(c))])
    /\ UNCHANGED <<session, signed, locked, holds, unheard, overtook>>

Listed(r, c) == \E b \in Call \ {c} : At(b, "commit") /\ r \in call[b].excess

Answered(c) ==
    LET d == call[c].device
    IN /\ holds' = [holds EXCEPT ![d] = call[c].token]
       /\ unheard' = unheard \ {d}
       /\ overtook' = IF Listed(call[c].row, c) THEN overtook \cup {d} ELSE overtook \ {d}

(* The answer is lost on its way: the device keeps a token without a row.    *)
Unanswered(c) == UNCHANGED <<holds, overtook>> /\ unheard' = unheard \cup {call[c].device}

(* The rows that were listed are removed by their ids, whatever token they   *)
(* hold by now, when no other transaction holds them; and it commits.        *)
CommitTokens(c) ==
    /\ At(c, "commit")
    /\ \A b \in Call \ {c} : call[b].at \in {"list", "commit"} => call[b].row \notin call[c].excess
    /\ session' = Restrict(Seen(c), DOMAIN Seen(c) \ call[c].excess)
    /\ locked' = IF call[c].lock THEN locked \ {call[c].replaces} ELSE locked
    /\ Answered(c) \/ Unanswered(c)
    /\ Return(c)
    /\ UNCHANGED signed

(* Signing out waits for the row, and finds its token no more if it has been *)
(* replaced; so does what removes all sessions: a new password, a reset.     *)
Logout(d) ==
    /\ holds[d] # 0
    /\ \A r \in DOMAIN session : session[r] = holds[d] => ~Written(r)
    /\ session' = Restrict(session, {r \in DOMAIN session : session[r] # holds[d]})
    /\ holds' = [holds EXCEPT ![d] = 0]
    /\ UNCHANGED <<signed, locked, unheard, overtook, call>>

ChangePassword ==
    /\ \A r \in DOMAIN session : ~Written(r)
    /\ session' = << >>
    /\ holds' = [d \in Device |-> 0]
    /\ UNCHANGED <<signed, locked, unheard, overtook, call>>

(* The process dies, or the transaction fails: what it wrote is undone.      *)
DieIssuing(c) ==
    /\ call[c] # Idle
    /\ Return(c)
    /\ UNCHANGED <<session, signed, locked, holds, unheard, overtook>>

SessionsNext ==
    \/ ChangePassword
    \/ \E t \in locked : LockEnds(t)
    \/ \E d \in Device : Logout(d)
    \/ \E c \in Call :
         \/ \E d \in Device : SignIn(c, d) \/ RequestRefresh(c, d)
         \/ LockToken(c) \/ StoreToken(c) \/ ListRows(c) \/ CommitTokens(c) \/ DieIssuing(c)

SessionsSpec == SessionsInit /\ [][SessionsNext]_sessionsVars

-----------------------------------------------------------------------------
(* A device stays signed in: the token it was last given has its row, until  *)
(* it signs out, the user has been given as many newer ones as are kept, or  *)
(* an answer to it was lost - although two refreshes with one token run at   *)
(* once, with and without the lock, and transactions remove rows by lists    *)
(* that are no longer true.  The one exception is a refresh that puts its    *)
(* token into a row which another transaction has listed already.            *)
DeviceStaysSignedIn ==
    \A d \in Device \ (unheard \cup overtook) :
        holds[d] \notin Range(session) \cup {0} => signed - holds[d] >= MaxSessions
=============================================================================
