-------------------------- MODULE MC_FlowExporter --------------------------
(***************************************************************************)
(* An instance of FlowExporter for TLC.                                    *)
(***************************************************************************)
EXTENDS FlowExporter

\* Two managers with different values, one with an idle timeout that is
\* longer than the flow timeout.
TwoSettings == {<<3, 1>>, <<1, 2>>}
=============================================================================
