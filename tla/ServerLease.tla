---------------------------- MODULE ServerLease ----------------------------
(***************************************************************************)
(* What the session manager promises about remote servers, without tasks,  *)
(* locks or cancellation: a server is leased to at most one holder, only a *)
(* holder authenticates a master and it does so at most once, a key goes   *)
(* only to a holder that authenticated, and a lease ends together with the *)
(* holder's master.  (sessions.py, ServerIdentity; doc/architecture.md.)   *)
(***************************************************************************)
CONSTANTS Holders, Servers, None

VARIABLES
    lease,    \* the server each holder has leased, or None
    masters,  \* holders with a live ssh master
    spent,    \* holders that have used up their one authentication
    issued    \* holders whose key was handed out

leaseVars == <<lease, masters, spent, issued>>

LeaseInit ==
    /\ lease = [h \in Holders |-> None]
    /\ masters = {}
    /\ spent = {}
    /\ issued = {}

Claim(h, v) ==
    /\ lease[h] = None
    /\ h \notin spent
    /\ \A o \in Holders : lease[o] # v
    /\ lease' = [lease EXCEPT ![h] = v]
    /\ UNCHANGED <<masters, spent, issued>>

Authenticate(h) ==
    /\ lease[h] # None
    /\ h \notin spent
    /\ spent' = spent \cup {h}
    /\ masters' = masters \cup {h}
    /\ UNCHANGED <<lease, issued>>

\* The master of a holder is gone; nothing brings it back.
Lose(h) ==
    /\ h \in masters
    /\ masters' = masters \ {h}
    /\ UNCHANGED <<lease, spent, issued>>

Issue(h) ==
    /\ lease[h] # None
    /\ h \in spent
    /\ issued' = issued \cup {h}
    /\ UNCHANGED <<lease, masters, spent>>

Release(h) ==
    /\ lease[h] # None
    /\ lease' = [lease EXCEPT ![h] = None]
    /\ masters' = masters \ {h}
    /\ spent' = spent \cup {h}
    /\ UNCHANGED issued

LeaseNext ==
    \E h \in Holders :
        \/ \E v \in Servers : Claim(h, v)
        \/ Authenticate(h)
        \/ Lose(h)
        \/ Issue(h)
        \/ Release(h)

LeaseSpec == LeaseInit /\ [][LeaseNext]_leaseVars

=============================================================================
