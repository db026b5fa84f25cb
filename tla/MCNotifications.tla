-------------------------- MODULE MCNotifications --------------------------
(* Small instances of Notifications for TLC. *)
EXTENDS Notifications

Scope(kind, limit, visits) ==
    [kind |-> [e \in Events |-> kind], mishaps |-> limit, visits |-> visits]

\* Events of every kind with two mishaps, and one password mail with none while
\* its addressee resets the password and logs in.
MailsAndVisits ==
    {Scope(k, 2, {}) : k \in Kinds} \cup {Scope("link", 0, Visits)}
=============================================================================
