---------------------------- MODULE MCSerialLink ----------------------------
(***************************************************************************)
(* TLC instance of SerialLink: bytes of three values and a buffer of three *)
(* keep the relation of the code's 256 to its 256, so a payload of the     *)
(* full length has a low length byte of zero.  One command is too long.    *)
(***************************************************************************)
EXTENDS SerialLink

MCCommands == {"approve", "data", "config self", "config pir", "health req", "power",
               "too long"}
MCFromMesh == {"mesh data", "mesh power", "mesh health req", "mesh bad power"}

Command(type, bcast, op, aimed, arg) ==
    [type |-> type, serial |-> op /= "NONE", bcast |-> bcast, op |-> op, aimed |-> aimed,
     arg |-> arg, key |-> FALSE, second |-> FALSE]

MCFields ==
    [m \in MCCommands \cup MCFromMesh |->
        CASE m = "approve" ->
                [Command("JOIN_ACK", FALSE, "NONE", FALSE, 0) EXCEPT !.key = TRUE, !.second = TRUE]
          [] m = "data" -> Command("ADAPTER_DATA", FALSE, "NONE", FALSE, 0)
          [] m = "config self" -> Command("CMD", FALSE, "CONFIG_SET", TRUE, "SERIAL")
          [] m = "config pir" -> Command("CMD", TRUE, "CONFIG_SET", TRUE, "PIR")
          [] m = "health req" -> Command("CMD", TRUE, "HEALTH_REQ", FALSE, 0)
          [] m = "power" -> Command("CMD", TRUE, "TX_POWER_SET", FALSE, 2)
          [] m = "too long" -> Command("OTHER", FALSE, "NONE", FALSE, 0)
          [] m = "mesh data" -> Command("ADAPTER_DATA", FALSE, "NONE", FALSE, 0)
          [] m = "mesh power" -> Command("ADAPTER_DATA", TRUE, "TX_POWER_SET", FALSE, 0)
          [] m = "mesh health req" -> Command("ADAPTER_DATA", TRUE, "HEALTH_REQ", FALSE, 0)
          [] m = "mesh bad power" -> Command("ADAPTER_DATA", TRUE, "TX_POWER_SET", FALSE, 3)]

MCCode ==
    [m \in MCCommands |->
        CASE m = "approve" -> <<2, 1, 0>>
          [] m = "data" -> <<0>>
          [] m = "config self" -> <<1, 0, 0>>
          [] m = "config pir" -> <<1, 0>>
          [] m = "health req" -> <<0, 1, 2>>
          [] m = "power" -> <<2, 2>>
          [] m = "too long" -> <<1, 0, 1, 0>>]

MCOutLen(m) == IF m = EnrollRequest THEN 2 ELSE 1
=============================================================================
