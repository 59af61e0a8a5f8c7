--------------------------- MODULE MCControlPlane ---------------------------
(* ControlPlane for TLC: a checkout whose user has a configuration and in   *)
(* which a project's comes and goes.  In the second version of the program  *)
(* the default has changed for what "looser" leaves open.                   *)
EXTENDS ControlPlane, TLC

CONSTANTS a, b, secrets, cache, own
MCCalls == {a, b}
Interchangeable == Permutations(MCCalls)
MCPaths == {secrets, cache}
MCOthers == {own}

Plain == [mode |-> 1, soft |-> 1, writable |-> {cache}, denied |-> {secrets}, rest |-> own]
Looser == [Plain EXCEPT !.denied = {}]
Stricter == [Plain EXCEPT !.mode = 2]

AllSources == {"absent", "stricter", "looser", "broken"}

Of(sources, looser) ==
  [s \in sources |-> CASE s = "absent" -> Plain [] s = "stricter" -> Stricter
                       [] s = "looser" -> looser [] s = "broken" -> Invalid]

AllProjectSources == AllSources \ {"absent"}
TwoVersions == <<Of(AllSources, Looser), Of(AllSources, Plain)>>

Worktree == {Plain}
=============================================================================
