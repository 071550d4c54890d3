--------------------------- MODULE MCGatedSession ---------------------------
(* A client's repertoire for GatedSession. *)
EXTENDS GatedSession

Text(ends, begins, body) == [ends |-> ends, begins |-> begins, body |-> body]

\* BEGIN, COMMIT, COMMIT AND CHAIN, a read, a write, a hidden write, and the
\* texts that put a write behind a BEGIN or a COMMIT, or a BEGIN behind a COMMIT.
ClientTexts ==
  {Text("no", TRUE, "none"), Text("end", FALSE, "none"),
   Text("chain", FALSE, "none"), Introspection,
   Text("no", FALSE, "write"), Text("no", FALSE, "hidden"),
   Text("no", TRUE, "write"), Text("end", FALSE, "hidden"),
   Text("end", TRUE, "none")}

=============================================================================
