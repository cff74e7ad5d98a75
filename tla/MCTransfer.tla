----------------------------- MODULE MCTransfer -----------------------------
(***************************************************************************)
(* Finite instances of Transfer for TLC.  Which requests the clients make  *)
(* is chosen in Init, from the set of jobs a configuration names.          *)
(***************************************************************************)
EXTENDS Transfer, TLC

CONSTANTS c1, c2, c3, p, q

FileTo(d, sizes) == [dest: {d}, kind: {"file"}, size: sizes]
DirAt(d) == [dest: {d}, kind: {"dir"}, size: {0}]
MissingFor(d) == [dest: {d}, kind: {"missing"}, size: {0}]

\* Empty files, files that end on a chunk's end, and just after one.
RefusalJobs == FileTo(p, {0, 3}) \cup FileTo(q, {2})

\* Files to one path, directories to another.
RecoveryJobs == FileTo(p, {3}) \cup DirAt(q)

\* Everything that can go wrong, including a source that does not exist.
FaultJobs == FileTo(p, {3}) \cup FileTo(q, {1}) \cup MissingFor(p)

\* The smallest sets of jobs that show each disagreement.
OneFileJobs == FileTo(p, {2})
BigFileJobs == FileTo(p, {3})
TwoFilesJobs == FileTo(p, {2}) \cup FileTo(q, {2})
FileOrDirJobs == FileTo(p, {1}) \cup DirAt(q)

Symmetry == Permutations(Clients)
=============================================================================
