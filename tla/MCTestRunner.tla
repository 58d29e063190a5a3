---------------------------- MODULE MCTestRunner ----------------------------
EXTENDS TestRunner, TLC

MCPipes == <<"stdout", "stderr">>

(* Three files: one whose tests all fail, one with an ignored test, a      *)
(* throwing test and a test after it, and one whose module throws.  The   *)
(* first failing test and the throwing test print.                         *)
MCTests == (1 :> <<"fail", "fail", "fail">>)
        @@ (2 :> <<"ignore", "throw", "ok">>)
        @@ (3 :> << >>)

MCPrints == {<<1, 1>>, <<2, 2>>}

(* The second test of the first file may end its test_specifier with an   *)
(* error after its Wait.                                                    *)
MCRunErrors == {<<1, 2>>}

(* One file, two tests that both print. *)
MCTestsPrint == 1 :> <<"ok", "ok">>

MCPrintsBoth == {<<1, 1>>, <<1, 2>>}

(* Two files, the first failing. *)
MCTestsFailFirst == (1 :> <<"fail">>) @@ (2 :> <<"ok">>)
=============================================================================
