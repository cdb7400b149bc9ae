--------------------------- MODULE RotatingTokens ---------------------------
(***************************************************************************)
(* What the session store promises, with no calls, no clock and no store:  *)
(* a login opens a chain of refresh tokens for one account; at any moment  *)
(* at most one token of the chain can be exchanged; an exchange replaces   *)
(* it by a token nobody has seen; a closed chain is closed for good.       *)
(***************************************************************************)
CONSTANTS
    Accounts,      \* account ids
    Tokens,        \* refresh tokens; a chain is named by its first token
    None           \* no open end: the chain was never opened, or is closed

VARIABLES
    chain,         \* chain -> the token that can be exchanged and its account
    used           \* the tokens ever handed out

End == [token : Tokens, account : Accounts]

TypeOK ==
    /\ chain \in [Tokens -> End \cup {None}]
    /\ used \subseteq Tokens

Init ==
    /\ chain = [f \in Tokens |-> None]
    /\ used = {}

\* A login: a new chain, with its first token.
Open(f, a) ==
    /\ f \notin used
    /\ chain' = [chain EXCEPT ![f] = [token |-> f, account |-> a]]
    /\ used' = used \cup {f}

\* A refresh: the open end of a chain is spent for a token never handed out.
Exchange(f, u) ==
    /\ chain[f] # None
    /\ u \notin used
    /\ chain' = [chain EXCEPT ![f].token = u]
    /\ used' = used \cup {u}

\* A logout that presents the open end of the chain.
Close(f) ==
    /\ chain[f] # None
    /\ chain' = [chain EXCEPT ![f] = None]
    /\ UNCHANGED used

\* The process that holds the chains ends.
CloseAll ==
    /\ chain' = [f \in Tokens |-> None]
    /\ UNCHANGED used

Next ==
    \/ \E f \in Tokens, a \in Accounts : Open(f, a)
    \/ \E f, u \in Tokens : Exchange(f, u)
    \/ \E f \in Tokens : Close(f)
    \/ CloseAll

Spec == Init /\ [][Next]_<<chain, used>>

=============================================================================
