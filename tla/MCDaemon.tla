---------------------------- MODULE MCDaemon ----------------------------
(***************************************************************************)
(* A small project for the daemon: one effect-performing function per file *)
(* and a caller, texts that fail, are rejected, lose or change an effect.  *)
(***************************************************************************)
EXTENDS Daemon, TLC

CONSTANTS f1, f2, a, b, c, E1, E2

Fun(performs, calls) == [performs |-> performs, calls |-> calls]
Text(funcs, build, failing) == [funcs |-> funcs, build |-> build, failing |-> failing]

(* f1 holds a, which performs E1, its caller c and main; its tests name a.  *)
APasses == Text(a :> Fun({E1}, {}) @@ c :> Fun({}, {a}) @@ "main" :> Fun({E2}, {c}),
                "succeeds", {})
AFails  == Text(a :> Fun({E1}, {}), "succeeds", {{a}})
(* a no longer performs E1 but E2.                                          *)
AMoves  == Text(a :> Fun({E2}, {}), "succeeds", {})

(* a's body is rejected by the Go compiler.                                 *)
ABreaks == Text(a :> Fun({E1}, {}), "fails", {})

(* f2 holds b, which performs E1; the second text is rejected.              *)
BPasses == Text(b :> Fun({E1}, {}), "succeeds", {})
BBroken == Text(b :> Fun({E1, E2}, {}), "rejected", {})

MCSourcesOf == f1 :> {APasses, AFails, AMoves, ABreaks} @@ f2 :> {BPasses, BBroken, Gone}

(* One edit of each file.                                                   *)
MCMaxVersion == f1 :> 2 @@ f2 :> 2

(* The instance for liveness: two edits of f1, one of which may come while  *)
(* the other is being handled; f2 does not exist.                           *)
LiveSourcesOf == f1 :> {AFails, AMoves} @@ f2 :> {Gone}
LiveMaxVersion == f1 :> 3 @@ f2 :> 1
=============================================================================
