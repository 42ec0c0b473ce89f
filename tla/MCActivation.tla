---------------------------- MODULE MCActivation ----------------------------
(***************************************************************************)
(* Instances of Activation for TLC.                                        *)
(***************************************************************************)
EXTENDS Activation

CONSTANTS r1, r2, r3, auth1, auth2, n1, n2

Release(d, s) == [digest |-> d, sequence |-> s, content |-> d]
Authorization(k, i, n, d, s, f, cur) ==
  [kind |-> k, id |-> i, nonce |-> n, target |-> d, sequence |-> s,
   floor |-> f, current |-> cur, ours |-> TRUE]

\* Releases as Big EVY numbers them: one sequence for each digest.
GovernedCandidates == {Release(r1, 1), Release(r2, 2), Release(r3, 3)}
\* Recoveries to an older release than the one being served.
GovernedAuthorizations ==
  { Authorization("preauthorized", auth1, n1, r1, 1, 2, r2),
    Authorization("exceptional", auth2, n2, r1, 1, 2, r2),
    Authorization("exceptional", auth1, n2, r2, 2, 3, r3),
    Authorization("exceptional", auth2, n1, r1, 1, 3, r2) }

\* Any operator input: a release under a sequence that is not its own, a
\* package that is another release or does not verify, a competing release at
\* the same sequence, and a recovery to the release being served.
AnyCandidates ==
  { Release(r1, 1), Release(r2, 2), Release(r1, 2), Release(r1, 3),
    [digest |-> r2, sequence |-> 2, content |-> r1],
    [digest |-> r2, sequence |-> 3, content |-> Broken] }
AnyAuthorizations ==
  { Authorization("preauthorized", auth1, n1, r1, 1, 2, r2),
    Authorization("exceptional", auth1, n1, r1, 1, 2, r2),
    Authorization("exceptional", auth2, n1, r1, 1, 2, r1),
    Authorization("preauthorized", auth2, n1, r2, 2, 2, r1),
    [Authorization("exceptional", auth2, n1, r1, 1, 2, r2) EXCEPT !.ours = FALSE] }
=============================================================================
