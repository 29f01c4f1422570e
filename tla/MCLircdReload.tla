---------------------------- MODULE MCLircdReload ----------------------------
(* Instances of LircdReload for TLC. *)
EXTENDS LircdReload, TLC

CONSTANTS r1, r2, c1, c2

R(name, codes) == [name |-> name, codes |-> codes]

\* with and without the remote, with and without the button, or nothing
ConfigsAll == {<<R(r1, {c1, c2})>>, <<R(r2, {c1}), R(r1, {c2})>>, <<>>}
\* the button that is sent is always there
ConfigsSame == {<<R(r1, {c1}), R(r2, {c1})>>, <<R(r2, {c1}), R(r1, {c1})>>}

Once == {2}
Two == {0, 2}
=============================================================================
