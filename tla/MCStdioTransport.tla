-------------------------- MODULE MCStdioTransport --------------------------
(***************************************************************************)
(* Lines for StdioTransport: one of each verdict, with and without an id.  *)
(***************************************************************************)
EXTENDS StdioTransport

Odd(shape) == Line(shape, "absent", FALSE, "absent", FALSE, FALSE)

MCLines ==
    { Odd("blank"), Odd("not json"), Odd("list"),
      Line("object", "usable", TRUE, "named", TRUE, FALSE),
      Line("object", "usable", FALSE, "named", TRUE, FALSE),
      Line("object", "usable", TRUE, "absent", TRUE, FALSE),
      Line("object", "usable", TRUE, "absent", TRUE, TRUE),
      Line("object", "bool", TRUE, "named", TRUE, FALSE),
      Line("object", "bool", FALSE, "named", TRUE, FALSE),
      Line("object", "absent", TRUE, "named", TRUE, FALSE),
      Line("object", "absent", TRUE, "named", FALSE, FALSE) }
=============================================================================
