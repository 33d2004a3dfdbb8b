------------------------------ MODULE MCTexts ------------------------------
(***************************************************************************)
(* Small instances, for TLC, of the routines that take a text apart:       *)
(* base64_decode, the MOTD, the list of ports, the keys in memory.  They   *)
(* share no state: a behaviour runs one of them.                           *)
(***************************************************************************)
EXTENDS Base64, Motd, PortList, LoadKeys

CONSTANTS letter, zero, newline

VARIABLE routine    \* the one that runs

SomeBytes == {0, 165, 255}
LineWidths == 1..8
SomePorts == {7, 70, 706}
SomeLens == 0..28

Base64Idle == data = <<>> /\ src = <<>> /\ src_size = 0 /\ src_pos = 0
              /\ dest = <<>> /\ result = "more"
MotdIdle == text = <<>> /\ motd = <<>> /\ pos = 0 /\ lines = <<>>
            /\ motdDone = FALSE
PortsIdle == wanted = <<>> /\ port_str = <<>> /\ ports = <<>>
             /\ portsDone = FALSE
LoadIdle == step = "idle" /\ pub_len = 0 /\ prv_len = 0 /\ len = 0 /\ at = 0
            /\ read = <<"none", 0>> /\ held = {} /\ keymat = "zero" /\ returned = "no"

TextsInit ==
  \/ routine = "base64" /\ Init /\ MotdIdle /\ PortsIdle /\ LoadIdle
  \/ routine = "motd" /\ Base64Idle /\ MotdInit /\ PortsIdle /\ LoadIdle
  \/ routine = "ports" /\ Base64Idle /\ MotdIdle /\ PortsInit /\ LoadIdle
  \/ routine = "keys" /\ Base64Idle /\ MotdIdle /\ PortsIdle /\ LoadInit

textVars == <<vars, motdVars, portVars, loadVars, routine>>

TextsNext ==
  \/ routine = "base64" /\ Next
     /\ UNCHANGED <<motdVars, portVars, loadVars, routine>>
  \/ routine = "motd" /\ MotdNext
     /\ UNCHANGED <<vars, portVars, loadVars, routine>>
  \/ routine = "ports" /\ PortsNext
     /\ UNCHANGED <<vars, motdVars, loadVars, routine>>
  \/ routine = "keys" /\ LoadNext
     /\ UNCHANGED <<vars, motdVars, portVars, routine>>

TextsSpec == TextsInit /\ [][TextsNext]_textVars
=============================================================================
