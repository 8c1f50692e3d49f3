------------------------------ MODULE Session ------------------------------
(***************************************************************************)
(* A run of the program: the arguments are read, the branches mounted, and *)
(* directories listed while files are copied up.  What is on the branches  *)
(* counts from the mount on.                                               *)
(***************************************************************************)
EXTENDS Mount, Listing

CONSTANTS Disks,     \* what the branches may hold when they are mounted
          MaxArgs    \* bound: arguments of one start

ASSUME SessionAssumption == \A d \in Disks : d \in Disk /\ WellFormed(d)

Init ==
    /\ given = <<>> /\ opts = NoOptions /\ main = "options"
    /\ uopt = [rw |-> [b \in Branch |-> FALSE], cow |-> FALSE]
    /\ fs = [tree |-> [b \in Branch |-> [p \in Path |-> Absent]],
              wh   |-> [b \in Branch |-> [p \in Path |-> "none"]]]
    /\ ls = Idle

\* Bound: MaxArgs
Next ==
    \/ Len(given) < MaxArgs /\ Option /\ UNCHANGED <<fs, ls>>
    \/ /\ Main
       /\ fs' \in IF Outcome(opts) = "mounted" THEN Disks ELSE {fs}
       /\ UNCHANGED ls
    \/ Mounted /\ Read /\ UNCHANGED <<given, opts, main>>

vars == <<given, opts, main, uopt, fs, ls>>

Spec == Init /\ [][Next]_vars

-----------------------------------------------------------------------------
(* Properties.                                                             *)

PathFits(p, b) == EndOf(p, b, Len(p)) + HIDETAG < PATHLEN_MAX

\* The walk over the string finds a whiteout exactly if the path or one of its
\* parents has one, for each path that leaves room for the whiteout's name.
\* This is what the other modules take path_hidden to be.
HiddenMatches ==
    Mounted /\ ~opts.chroot =>
        \A b \in Branch, p \in Path :
            PathFits(p, b) => (path_hidden_string(fs, p, b) = "hidden" <=> path_hidden(fs, p, b))

\* "check if any dir or file within path is hidden", whatever the options are.
HiddenParentsSeen ==
    Mounted => \A b \in Branch, p \in Path :
        PathFits(p, b) /\ path_hidden(fs, p, b) => path_hidden_string(fs, p, b) = "hidden"
=============================================================================
