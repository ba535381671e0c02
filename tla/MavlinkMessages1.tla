------------------------------ MODULE MavlinkMessages1 ------------------------------
(***************************************************************************)
(* The message classes of wfb_ng/mavlink.py (MAVLink common dialect) that  *)
(* travel in MAVLink 1 and 2, their ids being one byte: one definition for *)
(* each class.                                                             *)
(*                                                                         *)
(* Of a class the model keeps what decides how a message travels:          *)
(*   id         the message id                                             *)
(*   crc_extra  the byte that is added to the checksum                     *)
(*   format     unpacker: the struct fields, in wire order                 *)
(*   pack       the arguments of unpacker.pack in pack(): the k-th struct  *)
(*              field takes attribute pack[k] (counted as in fieldnames)   *)
(*   orders     orders: the struct field that holds the i-th attribute     *)
(*   lengths    lengths: the number of struct elements of a field          *)
(* pack() and decode() use different tables (pack's argument list there,   *)
(* orders and lengths here), so that they agree is a property, not a       *)
(* consequence of this layout.  Indices are those of the source: from 0.   *)
(***************************************************************************)
EXTENDS Naturals, Sequences

(* The struct codes B/b, H/h, I/i/f and Q/q/d: a number of so many bytes.  *)
U8 == [size |-> 1, count |-> 1, text |-> FALSE]
U16 == [size |-> 2, count |-> 1, text |-> FALSE]
U32 == [size |-> 4, count |-> 1, text |-> FALSE]
U64 == [size |-> 8, count |-> 1, text |-> FALSE]

(* A struct code with a repeat count, and the code Ns for char arrays.     *)
Arr(type, n) == [type EXCEPT !.count = n]
Str(n) == [size |-> n, count |-> 1, text |-> TRUE]

(* The attributes in the order of fieldnames. *)
Straight(n) == [k \in 1 .. n |-> k - 1]

(* A class without arrays (its lengths are all 1), and one with arrays.    *)
ArrayMessage(id, crc, format, pack, orders, lengths) ==
    [id |-> id, crc_extra |-> crc, format |-> format, pack |-> pack,
     orders |-> orders, lengths |-> lengths]
Message(id, crc, format, pack, orders) ==
    ArrayMessage(id, crc, format, pack, orders, [k \in DOMAIN format |-> 1])

-----------------------------------------------------------------------------
MAVLink_sys_status_message ==
    Message(1, 124, <<U32, U32, U32, U16, U16, U16, U16, U16, U16, U16, U16, U16, U8, U32, U32,
    U32>>, <<0, 1, 2, 3, 4, 5, 7, 8, 9, 10, 11, 12, 6, 13, 14, 15>>, <<0, 1, 2, 3, 4, 5, 12, 6, 7,
    8, 9, 10, 11, 13, 14, 15>>)
MAVLink_system_time_message == Message(2, 137, <<U64, U32>>, Straight(2), Straight(2))
MAVLink_ping_message == Message(4, 237, <<U64, U32, U8, U8>>, Straight(4), Straight(4))
MAVLink_change_operator_control_message ==
    Message(5, 217, <<U8, U8, U8, Str(25)>>, Straight(4), Straight(4))
MAVLink_change_operator_control_ack_message ==
    Message(6, 104, <<U8, U8, U8>>, Straight(3), Straight(3))
MAVLink_auth_key_message == Message(7, 119, <<Str(32)>>, Straight(1), Straight(1))
MAVLink_link_node_status_message ==
    Message(8, 117, <<U64, U32, U32, U32, U32, U32, U16, U16, U16, U8, U8>>, <<0, 3, 4, 8, 9, 10, 5,
    6, 7, 1, 2>>, <<0, 9, 10, 1, 2, 6, 7, 8, 3, 4, 5>>)
MAVLink_set_mode_message == Message(11, 89, <<U32, U8, U8>>, <<2, 0, 1>>, <<1, 2, 0>>)
MAVLink_param_request_read_message ==
    Message(20, 214, <<U16, U8, U8, Str(16)>>, <<3, 0, 1, 2>>, <<1, 2, 3, 0>>)
MAVLink_param_request_list_message == Message(21, 159, <<U8, U8>>, Straight(2), Straight(2))
MAVLink_param_value_message ==
    Message(22, 220, <<U32, U16, U16, Str(16), U8>>, <<1, 3, 4, 0, 2>>, <<3, 0, 4, 1, 2>>)
MAVLink_param_set_message ==
    Message(23, 168, <<U32, U8, U8, Str(16), U8>>, <<3, 0, 1, 2, 4>>, <<1, 2, 3, 0, 4>>)
MAVLink_gps_raw_int_message ==
    Message(24, 24, <<U64, U32, U32, U32, U16, U16, U16, U16, U8, U8, U32, U32, U32, U32, U32,
    U16>>, <<0, 2, 3, 4, 5, 6, 7, 8, 1, 9, 10, 11, 12, 13, 14, 15>>, <<0, 8, 1, 2, 3, 4, 5, 6, 7, 9,
    10, 11, 12, 13, 14, 15>>)
MAVLink_gps_status_message ==
    ArrayMessage(25, 23, <<U8, Arr(U8, 20), Arr(U8, 20), Arr(U8, 20), Arr(U8, 20), Arr(U8, 20)>>,
    Straight(6), Straight(6), <<1, 20, 20, 20, 20, 20>>)
MAVLink_scaled_imu_message ==
    Message(26, 170, <<U32, U16, U16, U16, U16, U16, U16, U16, U16, U16, U16>>, Straight(11),
    Straight(11))
MAVLink_raw_imu_message ==
    Message(27, 144, <<U64, U16, U16, U16, U16, U16, U16, U16, U16, U16, U8, U16>>, Straight(12),
    Straight(12))
MAVLink_raw_pressure_message ==
    Message(28, 67, <<U64, U16, U16, U16, U16>>, Straight(5), Straight(5))
MAVLink_scaled_pressure_message ==
    Message(29, 115, <<U32, U32, U32, U16, U16>>, Straight(5), Straight(5))
MAVLink_attitude_message ==
    Message(30, 39, <<U32, U32, U32, U32, U32, U32, U32>>, Straight(7), Straight(7))
MAVLink_attitude_quaternion_message ==
    ArrayMessage(31, 246, <<U32, U32, U32, U32, U32, U32, U32, U32, Arr(U32, 4)>>, Straight(9),
    Straight(9), <<1, 1, 1, 1, 1, 1, 1, 1, 4>>)
MAVLink_local_position_ned_message ==
    Message(32, 185, <<U32, U32, U32, U32, U32, U32, U32>>, Straight(7), Straight(7))
MAVLink_global_position_int_message ==
    Message(33, 104, <<U32, U32, U32, U32, U32, U16, U16, U16, U16>>, Straight(9), Straight(9))
MAVLink_rc_channels_scaled_message ==
    Message(34, 237, <<U32, U16, U16, U16, U16, U16, U16, U16, U16, U8, U8>>, <<0, 2, 3, 4, 5, 6, 7,
    8, 9, 1, 10>>, <<0, 9, 1, 2, 3, 4, 5, 6, 7, 8, 10>>)
MAVLink_rc_channels_raw_message ==
    Message(35, 244, <<U32, U16, U16, U16, U16, U16, U16, U16, U16, U8, U8>>, <<0, 2, 3, 4, 5, 6, 7,
    8, 9, 1, 10>>, <<0, 9, 1, 2, 3, 4, 5, 6, 7, 8, 10>>)
MAVLink_servo_output_raw_message ==
    Message(36, 222, <<U32, U16, U16, U16, U16, U16, U16, U16, U16, U8, U16, U16, U16, U16, U16,
    U16, U16, U16>>, <<0, 2, 3, 4, 5, 6, 7, 8, 9, 1, 10, 11, 12, 13, 14, 15, 16, 17>>, <<0, 9, 1, 2,
    3, 4, 5, 6, 7, 8, 10, 11, 12, 13, 14, 15, 16, 17>>)
MAVLink_mission_request_partial_list_message ==
    Message(37, 212, <<U16, U16, U8, U8, U8>>, <<2, 3, 0, 1, 4>>, <<2, 3, 0, 1, 4>>)
MAVLink_mission_write_partial_list_message ==
    Message(38, 9, <<U16, U16, U8, U8, U8>>, <<2, 3, 0, 1, 4>>, <<2, 3, 0, 1, 4>>)
MAVLink_mission_item_message ==
    Message(39, 254, <<U32, U32, U32, U32, U32, U32, U32, U16, U16, U8, U8, U8, U8, U8, U8>>, <<7,
    8, 9, 10, 11, 12, 13, 2, 4, 0, 1, 3, 5, 6, 14>>, <<9, 10, 7, 11, 8, 12, 13, 0, 1, 2, 3, 4, 5, 6,
    14>>)
MAVLink_mission_request_message ==
    Message(40, 230, <<U16, U8, U8, U8>>, <<2, 0, 1, 3>>, <<1, 2, 0, 3>>)
MAVLink_mission_set_current_message == Message(41, 28, <<U16, U8, U8>>, <<2, 0, 1>>, <<1, 2, 0>>)
MAVLink_mission_current_message == Message(42, 28, <<U16, U16, U8, U8>>, Straight(4), Straight(4))
MAVLink_mission_request_list_message == Message(43, 132, <<U8, U8, U8>>, Straight(3), Straight(3))
MAVLink_mission_count_message ==
    Message(44, 221, <<U16, U8, U8, U8>>, <<2, 0, 1, 3>>, <<1, 2, 0, 3>>)
MAVLink_mission_clear_all_message == Message(45, 232, <<U8, U8, U8>>, Straight(3), Straight(3))
MAVLink_mission_item_reached_message == Message(46, 11, <<U16>>, Straight(1), Straight(1))
MAVLink_mission_ack_message == Message(47, 153, <<U8, U8, U8, U8>>, Straight(4), Straight(4))
MAVLink_set_gps_global_origin_message ==
    Message(48, 41, <<U32, U32, U32, U8, U64>>, <<1, 2, 3, 0, 4>>, <<3, 0, 1, 2, 4>>)
MAVLink_gps_global_origin_message ==
    Message(49, 39, <<U32, U32, U32, U64>>, Straight(4), Straight(4))
MAVLink_param_map_rc_message ==
    Message(50, 78, <<U32, U32, U32, U32, U16, U8, U8, Str(16), U8>>, <<5, 6, 7, 8, 3, 0, 1, 2, 4>>,
    <<5, 6, 7, 4, 8, 0, 1, 2, 3>>)
MAVLink_mission_request_int_message ==
    Message(51, 196, <<U16, U8, U8, U8>>, <<2, 0, 1, 3>>, <<1, 2, 0, 3>>)
MAVLink_safety_set_allowed_area_message ==
    Message(54, 15, <<U32, U32, U32, U32, U32, U32, U8, U8, U8>>, <<3, 4, 5, 6, 7, 8, 0, 1, 2>>,
    <<6, 7, 8, 0, 1, 2, 3, 4, 5>>)
MAVLink_safety_allowed_area_message ==
    Message(55, 3, <<U32, U32, U32, U32, U32, U32, U8>>, <<1, 2, 3, 4, 5, 6, 0>>, <<6, 0, 1, 2, 3,
    4, 5>>)
MAVLink_attitude_quaternion_cov_message ==
    ArrayMessage(61, 167, <<U64, Arr(U32, 4), U32, U32, U32, Arr(U32, 9)>>, Straight(6),
    Straight(6), <<1, 4, 1, 1, 1, 9>>)
MAVLink_nav_controller_output_message ==
    Message(62, 183, <<U32, U32, U32, U32, U32, U16, U16, U16>>, <<0, 1, 5, 6, 7, 2, 3, 4>>, <<0, 1,
    5, 6, 7, 2, 3, 4>>)
MAVLink_global_position_int_cov_message ==
    ArrayMessage(63, 119, <<U64, U32, U32, U32, U32, U32, U32, U32, Arr(U32, 36), U8>>, <<0, 2, 3,
    4, 5, 6, 7, 8, 9, 1>>, <<0, 9, 1, 2, 3, 4, 5, 6, 7, 8>>, <<1, 1, 1, 1, 1, 1, 1, 1, 36, 1>>)
MAVLink_local_position_ned_cov_message ==
    ArrayMessage(64, 191, <<U64, U32, U32, U32, U32, U32, U32, U32, U32, U32, Arr(U32, 45), U8>>,
    <<0, 2, 3, 4, 5, 6, 7, 8, 9, 10, 11, 1>>, <<0, 11, 1, 2, 3, 4, 5, 6, 7, 8, 9, 10>>, <<1, 1, 1,
    1, 1, 1, 1, 1, 1, 1, 45, 1>>)
MAVLink_rc_channels_message ==
    Message(65, 118, <<U32, U16, U16, U16, U16, U16, U16, U16, U16, U16, U16, U16, U16, U16, U16,
    U16, U16, U16, U16, U8, U8>>, <<0, 2, 3, 4, 5, 6, 7, 8, 9, 10, 11, 12, 13, 14, 15, 16, 17, 18,
    19, 1, 20>>, <<0, 19, 1, 2, 3, 4, 5, 6, 7, 8, 9, 10, 11, 12, 13, 14, 15, 16, 17, 18, 20>>)
MAVLink_request_data_stream_message ==
    Message(66, 148, <<U16, U8, U8, U8, U8>>, <<3, 0, 1, 2, 4>>, <<1, 2, 3, 0, 4>>)
MAVLink_data_stream_message == Message(67, 21, <<U16, U8, U8>>, <<1, 0, 2>>, <<1, 0, 2>>)
MAVLink_manual_control_message ==
    Message(69, 243, <<U16, U16, U16, U16, U16, U8, U16, U8, U16, U16>>, <<1, 2, 3, 4, 5, 0, 6, 7,
    8, 9>>, <<5, 0, 1, 2, 3, 4, 6, 7, 8, 9>>)
MAVLink_rc_channels_override_message ==
    Message(70, 124, <<U16, U16, U16, U16, U16, U16, U16, U16, U8, U8, U16, U16, U16, U16, U16, U16,
    U16, U16, U16, U16>>, <<2, 3, 4, 5, 6, 7, 8, 9, 0, 1, 10, 11, 12, 13, 14, 15, 16, 17, 18, 19>>,
    <<8, 9, 0, 1, 2, 3, 4, 5, 6, 7, 10, 11, 12, 13, 14, 15, 16, 17, 18, 19>>)
MAVLink_mission_item_int_message ==
    Message(73, 38, <<U32, U32, U32, U32, U32, U32, U32, U16, U16, U8, U8, U8, U8, U8, U8>>, <<7, 8,
    9, 10, 11, 12, 13, 2, 4, 0, 1, 3, 5, 6, 14>>, <<9, 10, 7, 11, 8, 12, 13, 0, 1, 2, 3, 4, 5, 6,
    14>>)
MAVLink_vfr_hud_message ==
    Message(74, 20, <<U32, U32, U32, U32, U16, U16>>, <<0, 1, 4, 5, 2, 3>>, <<0, 1, 4, 5, 2, 3>>)
MAVLink_command_int_message ==
    Message(75, 158, <<U32, U32, U32, U32, U32, U32, U32, U16, U8, U8, U8, U8, U8>>, <<6, 7, 8, 9,
    10, 11, 12, 3, 0, 1, 2, 4, 5>>, <<8, 9, 10, 7, 11, 12, 0, 1, 2, 3, 4, 5, 6>>)
MAVLink_command_long_message ==
    Message(76, 152, <<U32, U32, U32, U32, U32, U32, U32, U16, U8, U8, U8>>, <<4, 5, 6, 7, 8, 9, 10,
    2, 0, 1, 3>>, <<8, 9, 7, 10, 0, 1, 2, 3, 4, 5, 6>>)
MAVLink_command_ack_message ==
    Message(77, 143, <<U16, U8, U8, U32, U8, U8>>, Straight(6), Straight(6))
MAVLink_command_cancel_message == Message(80, 14, <<U16, U8, U8>>, <<2, 0, 1>>, <<1, 2, 0>>)
MAVLink_manual_setpoint_message ==
    Message(81, 106, <<U32, U32, U32, U32, U32, U8, U8>>, Straight(7), Straight(7))
MAVLink_set_attitude_target_message ==
    ArrayMessage(82, 49, <<U32, Arr(U32, 4), U32, U32, U32, U32, U8, U8, U8, Arr(U32, 3)>>, <<0, 4,
    5, 6, 7, 8, 1, 2, 3, 9>>, <<0, 6, 7, 8, 1, 2, 3, 4, 5, 9>>, <<1, 4, 1, 1, 1, 1, 1, 1, 1, 3>>)
MAVLink_attitude_target_message ==
    ArrayMessage(83, 22, <<U32, Arr(U32, 4), U32, U32, U32, U32, U8>>, <<0, 2, 3, 4, 5, 6, 1>>, <<0,
    6, 1, 2, 3, 4, 5>>, <<1, 4, 1, 1, 1, 1, 1>>)
MAVLink_set_position_target_local_ned_message ==
    Message(84, 143, <<U32, U32, U32, U32, U32, U32, U32, U32, U32, U32, U32, U32, U16, U8, U8,
    U8>>, <<0, 5, 6, 7, 8, 9, 10, 11, 12, 13, 14, 15, 4, 1, 2, 3>>, <<0, 13, 14, 15, 12, 1, 2, 3, 4,
    5, 6, 7, 8, 9, 10, 11>>)
MAVLink_position_target_local_ned_message ==
    Message(85, 140, <<U32, U32, U32, U32, U32, U32, U32, U32, U32, U32, U32, U32, U16, U8>>, <<0,
    3, 4, 5, 6, 7, 8, 9, 10, 11, 12, 13, 2, 1>>, <<0, 13, 12, 1, 2, 3, 4, 5, 6, 7, 8, 9, 10, 11>>)
MAVLink_set_position_target_global_int_message ==
    Message(86, 5, <<U32, U32, U32, U32, U32, U32, U32, U32, U32, U32, U32, U32, U16, U8, U8, U8>>,
    <<0, 5, 6, 7, 8, 9, 10, 11, 12, 13, 14, 15, 4, 1, 2, 3>>, <<0, 13, 14, 15, 12, 1, 2, 3, 4, 5, 6,
    7, 8, 9, 10, 11>>)
MAVLink_position_target_global_int_message ==
    Message(87, 150, <<U32, U32, U32, U32, U32, U32, U32, U32, U32, U32, U32, U32, U16, U8>>, <<0,
    3, 4, 5, 6, 7, 8, 9, 10, 11, 12, 13, 2, 1>>, <<0, 13, 12, 1, 2, 3, 4, 5, 6, 7, 8, 9, 10, 11>>)
MAVLink_local_position_ned_system_global_offset_message ==
    Message(89, 231, <<U32, U32, U32, U32, U32, U32, U32>>, Straight(7), Straight(7))
MAVLink_hil_state_message ==
    Message(90, 183, <<U64, U32, U32, U32, U32, U32, U32, U32, U32, U32, U16, U16, U16, U16, U16,
    U16>>, Straight(16), Straight(16))
MAVLink_hil_controls_message ==
    Message(91, 63, <<U64, U32, U32, U32, U32, U32, U32, U32, U32, U8, U8>>, Straight(11),
    Straight(11))
MAVLink_hil_rc_inputs_raw_message ==
    Message(92, 54, <<U64, U16, U16, U16, U16, U16, U16, U16, U16, U16, U16, U16, U16, U8>>,
    Straight(14), Straight(14))
MAVLink_hil_actuator_controls_message ==
    ArrayMessage(93, 47, <<U64, U64, Arr(U32, 16), U8>>, <<0, 3, 1, 2>>, <<0, 2, 3, 1>>, <<1, 1, 16,
    1>>)
MAVLink_optical_flow_message ==
    Message(100, 175, <<U64, U32, U32, U32, U16, U16, U8, U8, U32, U32>>, <<0, 4, 5, 7, 2, 3, 1, 6,
    8, 9>>, <<0, 6, 4, 5, 1, 2, 7, 3, 8, 9>>)
MAVLink_global_vision_position_estimate_message ==
    ArrayMessage(101, 102, <<U64, U32, U32, U32, U32, U32, U32, Arr(U32, 21), U8>>, Straight(9),
    Straight(9), <<1, 1, 1, 1, 1, 1, 1, 21, 1>>)
MAVLink_vision_position_estimate_message ==
    ArrayMessage(102, 158, <<U64, U32, U32, U32, U32, U32, U32, Arr(U32, 21), U8>>, Straight(9),
    Straight(9), <<1, 1, 1, 1, 1, 1, 1, 21, 1>>)
MAVLink_vision_speed_estimate_message ==
    ArrayMessage(103, 208, <<U64, U32, U32, U32, Arr(U32, 9), U8>>, Straight(6), Straight(6), <<1,
    1, 1, 1, 9, 1>>)
MAVLink_vicon_position_estimate_message ==
    ArrayMessage(104, 56, <<U64, U32, U32, U32, U32, U32, U32, Arr(U32, 21)>>, Straight(8),
    Straight(8), <<1, 1, 1, 1, 1, 1, 1, 21>>)
MAVLink_highres_imu_message ==
    Message(105, 93, <<U64, U32, U32, U32, U32, U32, U32, U32, U32, U32, U32, U32, U32, U32, U16,
    U8>>, Straight(16), Straight(16))
MAVLink_optical_flow_rad_message ==
    Message(106, 138, <<U64, U32, U32, U32, U32, U32, U32, U32, U32, U16, U8, U8>>, <<0, 2, 3, 4, 5,
    6, 7, 10, 11, 8, 1, 9>>, <<0, 10, 1, 2, 3, 4, 5, 6, 9, 11, 7, 8>>)
MAVLink_hil_sensor_message ==
    Message(107, 108, <<U64, U32, U32, U32, U32, U32, U32, U32, U32, U32, U32, U32, U32, U32, U32,
    U8>>, Straight(16), Straight(16))
MAVLink_sim_state_message ==
    Message(108, 32, <<U32, U32, U32, U32, U32, U32, U32, U32, U32, U32, U32, U32, U32, U32, U32,
    U32, U32, U32, U32, U32, U32, U32, U32>>, Straight(23), Straight(23))
MAVLink_radio_status_message ==
    Message(109, 185, <<U16, U16, U8, U8, U8, U8, U8>>, <<5, 6, 0, 1, 2, 3, 4>>, <<2, 3, 4, 5, 6, 0,
    1>>)
MAVLink_file_transfer_protocol_message ==
    ArrayMessage(110, 84, <<U8, U8, U8, Arr(U8, 251)>>, Straight(4), Straight(4), <<1, 1, 1, 251>>)
MAVLink_timesync_message == Message(111, 34, <<U64, U64, U8, U8>>, Straight(4), Straight(4))
MAVLink_camera_trigger_message == Message(112, 174, <<U64, U32>>, Straight(2), Straight(2))
MAVLink_hil_gps_message ==
    Message(113, 124, <<U64, U32, U32, U32, U16, U16, U16, U16, U16, U16, U16, U8, U8, U8, U16>>,
    <<0, 2, 3, 4, 5, 6, 7, 8, 9, 10, 11, 1, 12, 13, 14>>, <<0, 11, 1, 2, 3, 4, 5, 6, 7, 8, 9, 10,
    12, 13, 14>>)
MAVLink_hil_optical_flow_message ==
    Message(114, 237, <<U64, U32, U32, U32, U32, U32, U32, U32, U32, U16, U8, U8>>, <<0, 2, 3, 4, 5,
    6, 7, 10, 11, 8, 1, 9>>, <<0, 10, 1, 2, 3, 4, 5, 6, 9, 11, 7, 8>>)
MAVLink_hil_state_quaternion_message ==
    ArrayMessage(115, 4, <<U64, Arr(U32, 4), U32, U32, U32, U32, U32, U32, U16, U16, U16, U16, U16,
    U16, U16, U16>>, Straight(16), Straight(16), <<1, 4, 1, 1, 1, 1, 1, 1, 1, 1, 1, 1, 1, 1, 1, 1>>)
MAVLink_scaled_imu2_message ==
    Message(116, 76, <<U32, U16, U16, U16, U16, U16, U16, U16, U16, U16, U16>>, Straight(11),
    Straight(11))
MAVLink_log_request_list_message ==
    Message(117, 128, <<U16, U16, U8, U8>>, <<2, 3, 0, 1>>, <<2, 3, 0, 1>>)
MAVLink_log_entry_message ==
    Message(118, 56, <<U32, U32, U16, U16, U16>>, <<3, 4, 0, 1, 2>>, <<2, 3, 4, 0, 1>>)
MAVLink_log_request_data_message ==
    Message(119, 116, <<U32, U32, U16, U8, U8>>, <<3, 4, 2, 0, 1>>, <<3, 4, 2, 0, 1>>)
MAVLink_log_data_message ==
    ArrayMessage(120, 134, <<U32, U16, U8, Arr(U8, 90)>>, <<1, 0, 2, 3>>, <<1, 0, 2, 3>>, <<1, 1, 1,
    90>>)
MAVLink_log_erase_message == Message(121, 237, <<U8, U8>>, Straight(2), Straight(2))
MAVLink_log_request_end_message == Message(122, 203, <<U8, U8>>, Straight(2), Straight(2))
MAVLink_gps_inject_data_message ==
    ArrayMessage(123, 250, <<U8, U8, U8, Arr(U8, 110)>>, Straight(4), Straight(4), <<1, 1, 1, 110>>)
MAVLink_gps2_raw_message ==
    Message(124, 87, <<U64, U32, U32, U32, U32, U16, U16, U16, U16, U8, U8, U8, U16, U32, U32, U32,
    U32, U32>>, <<0, 2, 3, 4, 11, 5, 6, 7, 8, 1, 9, 10, 12, 13, 14, 15, 16, 17>>, <<0, 9, 1, 2, 3,
    5, 6, 7, 8, 10, 11, 4, 12, 13, 14, 15, 16, 17>>)
MAVLink_power_status_message == Message(125, 203, <<U16, U16, U16>>, Straight(3), Straight(3))
MAVLink_serial_control_message ==
    ArrayMessage(126, 220, <<U32, U16, U8, U8, U8, Arr(U8, 70), U8, U8>>, <<3, 2, 0, 1, 4, 5, 6,
    7>>, <<2, 3, 1, 0, 4, 5, 6, 7>>, <<1, 1, 1, 1, 1, 70, 1, 1>>)
MAVLink_gps_rtk_message ==
    Message(127, 25, <<U32, U32, U32, U32, U32, U32, U32, U16, U8, U8, U8, U8, U8>>, <<0, 3, 8, 9,
    10, 11, 12, 2, 1, 4, 5, 6, 7>>, <<0, 8, 7, 1, 9, 10, 11, 12, 2, 3, 4, 5, 6>>)
MAVLink_gps2_rtk_message ==
    Message(128, 226, <<U32, U32, U32, U32, U32, U32, U32, U16, U8, U8, U8, U8, U8>>, <<0, 3, 8, 9,
    10, 11, 12, 2, 1, 4, 5, 6, 7>>, <<0, 8, 7, 1, 9, 10, 11, 12, 2, 3, 4, 5, 6>>)
MAVLink_scaled_imu3_message ==
    Message(129, 46, <<U32, U16, U16, U16, U16, U16, U16, U16, U16, U16, U16>>, Straight(11),
    Straight(11))
MAVLink_data_transmission_handshake_message ==
    Message(130, 29, <<U32, U16, U16, U16, U8, U8, U8>>, <<1, 2, 3, 4, 0, 5, 6>>, <<4, 0, 1, 2, 3,
    5, 6>>)
MAVLink_encapsulated_data_message ==
    ArrayMessage(131, 223, <<U16, Arr(U8, 253)>>, Straight(2), Straight(2), <<1, 253>>)
MAVLink_distance_sensor_message ==
    ArrayMessage(132, 85, <<U32, U16, U16, U16, U8, U8, U8, U8, U32, U32, Arr(U32, 4), U8>>,
    Straight(12), Straight(12), <<1, 1, 1, 1, 1, 1, 1, 1, 1, 1, 4, 1>>)
MAVLink_terrain_request_message ==
    Message(133, 6, <<U64, U32, U32, U16>>, <<3, 0, 1, 2>>, <<1, 2, 3, 0>>)
MAVLink_terrain_data_message ==
    ArrayMessage(134, 229, <<U32, U32, U16, Arr(U16, 16), U8>>, <<0, 1, 2, 4, 3>>, <<0, 1, 2, 4,
    3>>, <<1, 1, 1, 16, 1>>)
MAVLink_terrain_check_message == Message(135, 203, <<U32, U32>>, Straight(2), Straight(2))
MAVLink_terrain_report_message ==
    Message(136, 1, <<U32, U32, U32, U32, U16, U16, U16>>, <<0, 1, 3, 4, 2, 5, 6>>, <<0, 1, 4, 2, 3,
    5, 6>>)
MAVLink_scaled_pressure2_message ==
    Message(137, 195, <<U32, U32, U32, U16, U16>>, Straight(5), Straight(5))
MAVLink_att_pos_mocap_message ==
    ArrayMessage(138, 109, <<U64, Arr(U32, 4), U32, U32, U32, Arr(U32, 21)>>, Straight(6),
    Straight(6), <<1, 4, 1, 1, 1, 21>>)
MAVLink_set_actuator_control_target_message ==
    ArrayMessage(139, 168, <<U64, Arr(U32, 8), U8, U8, U8>>, <<0, 4, 1, 2, 3>>, <<0, 2, 3, 4, 1>>,
    <<1, 8, 1, 1, 1>>)
MAVLink_actuator_control_target_message ==
    ArrayMessage(140, 181, <<U64, Arr(U32, 8), U8>>, <<0, 2, 1>>, <<0, 2, 1>>, <<1, 8, 1>>)
MAVLink_altitude_message ==
    Message(141, 47, <<U64, U32, U32, U32, U32, U32, U32>>, Straight(7), Straight(7))
MAVLink_resource_request_message ==
    ArrayMessage(142, 72, <<U8, U8, Arr(U8, 120), U8, Arr(U8, 120)>>, Straight(5), Straight(5), <<1,
    1, 120, 1, 120>>)
MAVLink_scaled_pressure3_message ==
    Message(143, 131, <<U32, U32, U32, U16, U16>>, Straight(5), Straight(5))
MAVLink_follow_target_message ==
    ArrayMessage(144, 127, <<U64, U64, U32, U32, U32, Arr(U32, 3), Arr(U32, 3), Arr(U32, 4),
    Arr(U32, 3), Arr(U32, 3), U8>>, <<0, 10, 2, 3, 4, 5, 6, 7, 8, 9, 1>>, <<0, 10, 2, 3, 4, 5, 6, 7,
    8, 9, 1>>, <<1, 1, 1, 1, 1, 3, 3, 4, 3, 3, 1>>)
MAVLink_control_system_state_message ==
    ArrayMessage(146, 103, <<U64, U32, U32, U32, U32, U32, U32, U32, U32, U32, U32, Arr(U32, 3),
    Arr(U32, 3), Arr(U32, 4), U32, U32, U32>>, Straight(17), Straight(17), <<1, 1, 1, 1, 1, 1, 1, 1,
    1, 1, 1, 3, 3, 4, 1, 1, 1>>)
MAVLink_battery_status_message ==
    ArrayMessage(147, 154, <<U32, U32, U16, Arr(U16, 10), U16, U8, U8, U8, U8, U32, U8, Arr(U16, 4),
    U8, U32>>, <<6, 7, 3, 4, 5, 0, 1, 2, 8, 9, 10, 11, 12, 13>>, <<5, 6, 7, 2, 3, 4, 0, 1, 8, 9, 10,
    11, 12, 13>>, <<1, 1, 1, 10, 1, 1, 1, 1, 1, 1, 1, 4, 1, 1>>)
MAVLink_autopilot_version_message ==
    ArrayMessage(148, 178, <<U64, U64, U32, U32, U32, U32, U16, U16, Arr(U8, 8), Arr(U8, 8), Arr(U8,
    8), Arr(U8, 18)>>, <<0, 10, 1, 2, 3, 4, 8, 9, 5, 6, 7, 11>>, <<0, 2, 3, 4, 5, 8, 9, 10, 6, 7, 1,
    11>>, <<1, 1, 1, 1, 1, 1, 1, 1, 8, 8, 8, 18>>)
MAVLink_landing_target_message ==
    ArrayMessage(149, 200, <<U64, U32, U32, U32, U32, U32, U8, U8, U32, U32, U32, Arr(U32, 4), U8,
    U8>>, <<0, 3, 4, 5, 6, 7, 1, 2, 8, 9, 10, 11, 12, 13>>, <<0, 6, 7, 1, 2, 3, 4, 5, 8, 9, 10, 11,
    12, 13>>, <<1, 1, 1, 1, 1, 1, 1, 1, 1, 1, 1, 4, 1, 1>>)
MAVLink_fence_status_message ==
    Message(162, 189, <<U32, U16, U8, U8, U8>>, <<3, 1, 0, 2, 4>>, <<2, 1, 3, 0, 4>>)
MAVLink_mag_cal_report_message ==
    Message(192, 36, <<U32, U32, U32, U32, U32, U32, U32, U32, U32, U32, U8, U8, U8, U8, U32, U8,
    U8, U32>>, <<4, 5, 6, 7, 8, 9, 10, 11, 12, 13, 0, 1, 2, 3, 14, 15, 16, 17>>, <<10, 11, 12, 13,
    0, 1, 2, 3, 4, 5, 6, 7, 8, 9, 14, 15, 16, 17>>)
MAVLink_efi_status_message ==
    Message(225, 208, <<U32, U32, U32, U32, U32, U32, U32, U32, U32, U32, U32, U32, U32, U32, U32,
    U32, U8, U32>>, <<1, 2, 3, 4, 5, 6, 7, 8, 9, 10, 11, 12, 13, 14, 15, 16, 0, 17>>, <<16, 0, 1, 2,
    3, 4, 5, 6, 7, 8, 9, 10, 11, 12, 13, 14, 15, 17>>)
MAVLink_estimator_status_message ==
    Message(230, 163, <<U64, U32, U32, U32, U32, U32, U32, U32, U32, U16>>, <<0, 2, 3, 4, 5, 6, 7,
    8, 9, 1>>, <<0, 9, 1, 2, 3, 4, 5, 6, 7, 8>>)
MAVLink_wind_cov_message ==
    Message(231, 105, <<U64, U32, U32, U32, U32, U32, U32, U32, U32>>, Straight(9), Straight(9))
MAVLink_gps_input_message ==
    Message(232, 151, <<U64, U32, U32, U32, U32, U32, U32, U32, U32, U32, U32, U32, U32, U16, U16,
    U8, U8, U8, U16>>, <<0, 3, 6, 7, 8, 9, 10, 11, 12, 13, 14, 15, 16, 2, 4, 1, 5, 17, 18>>, <<0,
    15, 13, 1, 14, 16, 2, 3, 4, 5, 6, 7, 8, 9, 10, 11, 12, 17, 18>>)
MAVLink_gps_rtcm_data_message ==
    ArrayMessage(233, 35, <<U8, U8, Arr(U8, 180)>>, Straight(3), Straight(3), <<1, 1, 180>>)
MAVLink_high_latency_message ==
    Message(234, 150, <<U32, U32, U32, U16, U16, U16, U16, U16, U16, U16, U8, U8, U8, U8, U8, U8,
    U8, U8, U8, U8, U8, U8, U8, U8>>, <<1, 8, 9, 3, 4, 5, 7, 10, 11, 23, 0, 2, 6, 12, 13, 14, 15,
    16, 17, 18, 19, 20, 21, 22>>, <<10, 0, 11, 3, 4, 5, 12, 6, 1, 2, 7, 8, 13, 14, 15, 16, 17, 18,
    19, 20, 21, 22, 23, 9>>)
MAVLink_high_latency2_message ==
    Message(235, 179, <<U32, U32, U32, U16, U16, U16, U16, U16, U16, U8, U8, U8, U8, U8, U8, U8, U8,
    U8, U8, U8, U8, U8, U8, U8, U8, U8, U8>>, <<0, 4, 5, 3, 6, 7, 10, 22, 23, 1, 2, 8, 9, 11, 12,
    13, 14, 15, 16, 17, 18, 19, 20, 21, 24, 25, 26>>, <<0, 9, 10, 3, 1, 2, 4, 5, 11, 12, 6, 13, 14,
    15, 16, 17, 18, 19, 20, 21, 22, 23, 7, 8, 24, 25, 26>>)
MAVLink_vibration_message ==
    Message(241, 90, <<U64, U32, U32, U32, U32, U32, U32>>, Straight(7), Straight(7))
MAVLink_home_position_message ==
    ArrayMessage(242, 104, <<U32, U32, U32, U32, U32, U32, Arr(U32, 4), U32, U32, U32, U64>>,
    Straight(11), Straight(11), <<1, 1, 1, 1, 1, 1, 4, 1, 1, 1, 1>>)
MAVLink_set_home_position_message ==
    ArrayMessage(243, 85, <<U32, U32, U32, U32, U32, U32, Arr(U32, 4), U32, U32, U32, U8, U64>>,
    <<1, 2, 3, 4, 5, 6, 7, 8, 9, 10, 0, 11>>, <<10, 0, 1, 2, 3, 4, 5, 6, 7, 8, 9, 11>>, <<1, 1, 1,
    1, 1, 1, 4, 1, 1, 1, 1, 1>>)
MAVLink_message_interval_message == Message(244, 95, <<U32, U16>>, <<1, 0>>, <<1, 0>>)
MAVLink_extended_sys_state_message == Message(245, 130, <<U8, U8>>, Straight(2), Straight(2))
MAVLink_adsb_vehicle_message ==
    Message(246, 184, <<U32, U32, U32, U32, U16, U16, U16, U16, U16, U8, Str(9), U8, U8>>, <<0, 1,
    2, 4, 5, 6, 7, 11, 12, 3, 8, 9, 10>>, <<0, 1, 2, 9, 3, 4, 5, 6, 10, 11, 12, 7, 8>>)
MAVLink_collision_message ==
    Message(247, 81, <<U32, U32, U32, U32, U8, U8, U8>>, <<1, 4, 5, 6, 0, 2, 3>>, <<4, 0, 5, 6, 1,
    2, 3>>)
MAVLink_v2_extension_message ==
    ArrayMessage(248, 8, <<U16, U8, U8, U8, Arr(U8, 249)>>, <<3, 0, 1, 2, 4>>, <<1, 2, 3, 0, 4>>,
    <<1, 1, 1, 1, 249>>)
MAVLink_memory_vect_message ==
    ArrayMessage(249, 204, <<U16, U8, U8, Arr(U8, 32)>>, Straight(4), Straight(4), <<1, 1, 1, 32>>)
MAVLink_debug_vect_message ==
    Message(250, 49, <<U64, U32, U32, U32, Str(10)>>, <<1, 2, 3, 4, 0>>, <<4, 0, 1, 2, 3>>)
MAVLink_named_value_float_message ==
    Message(251, 170, <<U32, U32, Str(10)>>, <<0, 2, 1>>, <<0, 2, 1>>)
MAVLink_named_value_int_message == Message(252, 44, <<U32, U32, Str(10)>>, <<0, 2, 1>>, <<0, 2, 1>>)
MAVLink_statustext_message == Message(253, 83, <<U8, Str(50), U16, U8>>, Straight(4), Straight(4))
MAVLink_debug_message == Message(254, 46, <<U32, U32, U8>>, <<0, 2, 1>>, <<0, 2, 1>>)

(* Mutant: the fields are packed in the order of fieldnames. *)
MAVLink_heartbeat_message_unsorted ==
    Message(0, 50, <<U8, U8, U8, U32, U8, U8>>, Straight(6), Straight(6))

MAVLink_heartbeat_message ==
    Message(0, 50, <<U32, U8, U8, U8, U8, U8>>, <<3, 0, 1, 2, 4, 5>>, <<1, 2, 3, 0, 4, 5>>)

=============================================================================
