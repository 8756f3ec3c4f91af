------------------------------- MODULE MCSession --------------------------------
(***************************************************************************)
(* Small instances of Session: five values of KDAF_USERS.                  *)
(***************************************************************************)
EXTENDS Session

CONSTANTS ann, bob

Entry(user, fields, roles) == [user |-> user, fields |-> fields, roles |-> roles]

\* Ann is an engineer; she is one no more, by a second entry, and Bob is one;
\* her entry is malformed; Ann is named twice; nobody is named.
MCConfigs ==
  { << Entry(ann, 3, {Engineer}) >>,
    << Entry(ann, 3, {Engineer}), Entry(ann, 2, {}), Entry(bob, 3, {Engineer}) >>,
    << Entry(ann, 1, {Engineer}), Entry(bob, 3, {"analyst"}) >>,
    << Entry(ann, 3, {"analyst"}), Entry(bob, 2, {}), Entry(ann, 3, {Engineer}) >>,
    <<>> }
=============================================================================
