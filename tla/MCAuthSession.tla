--------------------------- MODULE MCAuthSession ---------------------------
(***************************************************************************)
(* Two requests at once.  A behaviour exercises one group of operations:   *)
(* the rows of sessions, resets, invitations and of the request limiter    *)
(* are disjoint, so that the groups meet only where a group says.          *)
(***************************************************************************)
EXTENDS AuthSession, RequestLimiter
CONSTANTS u1, u2, i1, i2

MCUsers       == {u1, u2}
MCProvisioned == {u1}
MCInvites     == {i1, i2}
MCRecipient   == [i \in MCInvites |-> IF i = i1 THEN u2 ELSE Nobody]
MCWorkloads   == {{"login", "refresh", "logout", "clean"},
                  {"login", "refresh", "forgot", "reset"},
                  {"forgot", "reset", "clean", "delete"},
                  {"register", "join", "delete", "clean"},
                  {"hit"}}

MCInit == Init /\ LInit

MCSpec ==
  /\ MCInit
  /\ [][\/ Next /\ UNCHANGED lvars
        \/ "hit" \in offered /\ LNext /\ UNCHANGED vars]_<<vars, lvars>>
  /\ \A x \in Slots : SF_vars(Step(x))
=============================================================================
