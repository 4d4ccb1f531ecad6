--------------------------- MODULE MCRuntimeDirs ---------------------------
(* Instances of RuntimeDirs for TLC. *)
EXTENDS RuntimeDirs, TLC

Symmetry == Permutations(Starts) \cup Permutations(Sweepers)

(* States that differ only in what no step reads any more are one state:   *)
(* what a start or a remover kept of a step that is over.                  *)
Kept(f, X) == [x \in DOMAIN f |-> IF x \in X THEN f[x] ELSE 0]
Doing(S) == {s \in Starts : alive = "up" /\ at[s] \in S}
Made == {"open", "lock", "flock", "verify", "publish"}
Busy == {a \in Removers : rat[a] \notin {"idle", "done", "late", "died"} /\ (a \in Own => alive = "up")}

Read ==
  <<entry, lockOf, kern, old, holder, made, locks, cleaned, alive, exiting, making, name, held, mutex,
    [s \in Starts |-> IF alive = "up" \/ at[s] = "idle" THEN at[s] ELSE "failed"],
    Kept(dir, Doing({"lock", "kmake"})), Kept(file, Doing({"flock", "verify", "publish"})),
    Kept(again, Doing(Made)), Kept(try, Doing(Made \cup {"mkdir"})),
    Kept(tries, Doing(AtSteps \ {"idle", "got", "failed"})),
    rat, Kept(rname, Busy \cup {Guard}), Kept(rdir, Busy), Kept(rfile, Busy), Kept(claim, Busy)>>
=============================================================================
