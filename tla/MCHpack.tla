------------------------------- MODULE MCHpack -------------------------------
(***************************************************************************)
(* Fields of such a size that one, two or three of them fill a table; of   *)
(* the static table the entries with these names.                          *)
(***************************************************************************)
EXTENDS HpackProperties

MCField(name, value) == [name |-> name, value |-> value]

MCStatic == 4 :> MCField(":path", "/") @@ 58 :> MCField("user-agent", "")
MCFields == {MCField(":path", "/"), MCField("user-agent", "long"),
             MCField("user-agent", "longer")}
MCLength == [s \in {":path", "user-agent", "garbled", "", "/", "long", "longer"} |->
                CASE s = ":path" -> 5 [] s = "user-agent" -> 10 [] s = "garbled" -> 7
                  [] s = "/" -> 1 [] s = "long" -> 1900 [] s = "longer" -> 3000 [] OTHER -> 0]
MCClients == {{}, {"plain"}, {"names", "early"}}
=============================================================================
