--------------------------- MODULE MCPromExporter ---------------------------
(* PromExporter on small instances; the bounds are discussed in README.md. *)
EXTENDS PromExporter

CONSTANTS c1, c2
MCConns == {c1, c2}
=============================================================================
