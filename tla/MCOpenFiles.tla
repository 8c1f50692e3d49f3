---------------------------- MODULE MCOpenFiles ----------------------------
(* Instances of OpenFiles for TLC. *)
EXTENDS OpenFiles, TLC

CONSTANTS f1, f2, i1, i2, i3, i4, u1, u2

\* both files are on the read-only branch
BothLower == (f1 :> i1) @@ (f2 :> i2)

\* What has been spoiled may hold anything: states that differ only in its
\* contents, or in a buffer that will not be written, are one state.  The
\* code reads no contents but those of the read-only branch.
Kept(i) == \E b \in Branch, n \in File : name[b][n] = i /\ (b = 0 => n \notin spoiled)

SoundState ==
    <<name, [i \in Inode |-> IF Kept(i) THEN inode[i] ELSE NoInode], hidden,
      IF \E u \in User : call[u].at = "write" THEN buf ELSE Hole, call, fd, node,
      [m \in File |-> IF \E n \in File \ spoiled : node[n] = m THEN want[m] ELSE NoFile], spoiled>>

Users == Permutations(User)
=============================================================================
