----------------------------- MODULE MCAgencies -----------------------------
(* Small instances of Agencies for TLC. *)
EXTENDS Agencies, TLC

CONSTANTS a1, a2, a3, u1

Node(parent, contact, active) ==
    [parent |-> parent, contact |-> contact, active |-> active]
Request(id, parent, login) ==
    [id |-> id, parent |-> parent, login |-> login, contact |-> None,
     active |-> Keep]

\* Three agencies: any may be put under any other, cleared, or left where it is,
\* while the master's tree has a chain of two of them.
Moves == {Request(a, b, None) : a \in Agencies, b \in Agencies \cup {None}}
Chain == (a1 :> Node(None, None, TRUE)) @@ (a2 :> Node(a1, None, TRUE))
LongChain == Chain @@ (a3 :> Node(a2, None, TRUE))
TreeScope ==
    [inputs |-> Moves, trees |-> {Chain, LongChain}, tokens |-> {}, people |-> {}]

\* Two agencies that may both claim the same address as their login; one of them
\* is stopped by one tree and approves the applicant in the other.
LoginRequests == {Request(a1, b, u1) : b \in {Keep, a2}}
    \cup {[Request(a2, Keep, u1) EXCEPT !.contact = u1, !.active = b] : b \in BOOLEAN}
LoginScope ==
    [inputs |-> LoginRequests, trees |-> {a2 :> Node(None, u1, b) : b \in BOOLEAN},
     tokens |-> {<<a1, None>>, <<a2, u1>>}, people |-> Users]

TreeAndLogins == {TreeScope, LoginScope}
=============================================================================
