------------------------------ MODULE MCMavlinkProxy ------------------------------
(***************************************************************************)
(* A serial line with heartbeats in MAVLink 1, a MAVLink 2 frame of the    *)
(* autopilot's camera (whose payload holds a start byte), and noise.       *)
(***************************************************************************)
EXTENDS MavlinkProxy

MCHeartbeat(s) ==
    <<254, 9, 7, 1, 1, 0>> \o <<0, 0, 0, 0, 2, 12, IF s = "armed" THEN 209 ELSE 81, 4, 3>> \o <<17, 34>>

CameraFrame == <<253, 1, 0, 0, 8, 1, 100, 0, 0, 0>> \o <<254>> \o <<51, 68>>
MCNoise == {<<9, 0, 9, 9, 9, 9, 9, 9, 9>>}
MCOthers == {CameraFrame}

(* A heartbeat of the ground station, joined with a RADIO_STATUS message;  *)
(* and a heartbeat with the autopilot's own ids (another vehicle may have   *)
(* the same) whose payload is cut short, joined with the same message.     *)
RadioStatus == <<253, 0, 0, 0, 2, 3, 68, 109, 0, 0, 3, 4>>
ShortHeartbeat == <<254, 5, 3, 1, 1, 0>> \o <<0, 0, 0, 0, 2>> \o <<5, 6>>
MCWrites == {<<254, 0, 1, 255, 190, 0, 1, 2>> \o RadioStatus,
             ShortHeartbeat \o RadioStatus}

=============================================================================
