------------------------------ MODULE MavlinkMessages ------------------------------
(***************************************************************************)
(* The message classes of wfb_ng/mavlink.py whose ids are above 255, which *)
(* only MAVLink 2 can carry, and the table mavlink_map that finds a class  *)
(* by message id.                                                          *)
(***************************************************************************)
EXTENDS MavlinkMessages1

MAVLink_setup_signing_message ==
    ArrayMessage(256, 71, <<U64, U8, U8, Arr(U8, 32)>>, <<3, 0, 1, 2>>, <<1, 2, 3, 0>>, <<1, 1, 1,
    32>>)
MAVLink_button_change_message == Message(257, 131, <<U32, U32, U8>>, Straight(3), Straight(3))
MAVLink_play_tune_message ==
    Message(258, 187, <<U8, U8, Str(30), Str(200)>>, Straight(4), Straight(4))
MAVLink_camera_information_message ==
    ArrayMessage(259, 92, <<U32, U32, U32, U32, U32, U32, U16, U16, U16, Arr(U8, 32), Arr(U8, 32),
    U8, Str(140)>>, <<0, 3, 4, 5, 6, 10, 7, 8, 11, 1, 2, 9, 12>>, <<0, 9, 10, 1, 2, 3, 4, 6, 7, 11,
    5, 8, 12>>, <<1, 1, 1, 1, 1, 1, 1, 1, 1, 32, 32, 1, 1>>)
MAVLink_camera_settings_message ==
    Message(260, 146, <<U32, U8, U32, U32>>, Straight(4), Straight(4))
MAVLink_storage_information_message ==
    Message(261, 179, <<U32, U32, U32, U32, U32, U32, U8, U8, U8, U8, Str(32), U8>>, <<0, 4, 5, 6,
    7, 8, 1, 2, 3, 9, 10, 11>>, <<0, 6, 7, 8, 1, 2, 3, 4, 5, 9, 10, 11>>)
MAVLink_camera_capture_status_message ==
    Message(262, 12, <<U32, U32, U32, U32, U8, U8, U32>>, <<0, 3, 4, 5, 1, 2, 6>>, <<0, 4, 5, 1, 2,
    3, 6>>)
MAVLink_camera_image_captured_message ==
    ArrayMessage(263, 133, <<U64, U32, U32, U32, U32, U32, Arr(U32, 4), U32, U8, U8, Str(205)>>,
    <<1, 0, 3, 4, 5, 6, 7, 8, 2, 9, 10>>, <<1, 0, 8, 2, 3, 4, 5, 6, 7, 9, 10>>, <<1, 1, 1, 1, 1, 1,
    4, 1, 1, 1, 1>>)
MAVLink_flight_information_message ==
    Message(264, 49, <<U64, U64, U64, U32>>, <<1, 2, 3, 0>>, <<3, 0, 1, 2>>)
MAVLink_mount_orientation_message ==
    Message(265, 26, <<U32, U32, U32, U32, U32>>, Straight(5), Straight(5))
MAVLink_logging_data_message ==
    ArrayMessage(266, 193, <<U16, U8, U8, U8, U8, Arr(U8, 249)>>, <<2, 0, 1, 3, 4, 5>>, <<1, 2, 0,
    3, 4, 5>>, <<1, 1, 1, 1, 1, 249>>)
MAVLink_logging_data_acked_message ==
    ArrayMessage(267, 35, <<U16, U8, U8, U8, U8, Arr(U8, 249)>>, <<2, 0, 1, 3, 4, 5>>, <<1, 2, 0, 3,
    4, 5>>, <<1, 1, 1, 1, 1, 249>>)
MAVLink_logging_ack_message == Message(268, 14, <<U16, U8, U8>>, <<2, 0, 1>>, <<1, 2, 0>>)
MAVLink_video_stream_information_message ==
    Message(269, 109, <<U32, U32, U16, U16, U16, U16, U16, U8, U8, U8, Str(32), Str(160)>>, <<4, 7,
    3, 5, 6, 8, 9, 0, 1, 2, 10, 11>>, <<7, 8, 9, 2, 0, 3, 4, 1, 5, 6, 10, 11>>)
MAVLink_video_stream_status_message ==
    Message(270, 59, <<U32, U32, U16, U16, U16, U16, U16, U8>>, <<2, 5, 1, 3, 4, 6, 7, 0>>, <<7, 2,
    0, 3, 4, 1, 5, 6>>)
MAVLink_camera_fov_status_message ==
    ArrayMessage(271, 22, <<U32, U32, U32, U32, U32, U32, U32, Arr(U32, 4), U32, U32>>,
    Straight(10), Straight(10), <<1, 1, 1, 1, 1, 1, 1, 4, 1, 1>>)
MAVLink_camera_tracking_image_status_message ==
    Message(275, 126, <<U32, U32, U32, U32, U32, U32, U32, U8, U8, U8>>, <<3, 4, 5, 6, 7, 8, 9, 0,
    1, 2>>, <<7, 8, 9, 0, 1, 2, 3, 4, 5, 6>>)
MAVLink_camera_tracking_geo_status_message ==
    Message(276, 18, <<U32, U32, U32, U32, U32, U32, U32, U32, U32, U32, U32, U32, U8>>, <<1, 2, 3,
    4, 5, 6, 7, 8, 9, 10, 11, 12, 0>>, <<12, 0, 1, 2, 3, 4, 5, 6, 7, 8, 9, 10, 11>>)
MAVLink_gimbal_manager_information_message ==
    Message(280, 70, <<U32, U32, U32, U32, U32, U32, U32, U32, U8>>, <<0, 1, 3, 4, 5, 6, 7, 8, 2>>,
    <<0, 1, 8, 2, 3, 4, 5, 6, 7>>)
MAVLink_gimbal_manager_status_message ==
    Message(281, 48, <<U32, U32, U8, U8, U8, U8, U8>>, Straight(7), Straight(7))
MAVLink_gimbal_manager_set_attitude_message ==
    ArrayMessage(282, 123, <<U32, Arr(U32, 4), U32, U32, U32, U8, U8, U8>>, <<2, 4, 5, 6, 7, 0, 1,
    3>>, <<5, 6, 0, 7, 1, 2, 3, 4>>, <<1, 4, 1, 1, 1, 1, 1, 1>>)
MAVLink_gimbal_device_information_message ==
    Message(283, 74, <<U64, U32, U32, U32, U32, U32, U32, U32, U32, U32, U16, U16, Str(32), Str(32),
    Str(32)>>, <<6, 0, 4, 5, 9, 10, 11, 12, 13, 14, 7, 8, 1, 2, 3>>, <<1, 12, 13, 14, 2, 3, 0, 10,
    11, 4, 5, 6, 7, 8, 9>>)
MAVLink_gimbal_device_set_attitude_message ==
    ArrayMessage(284, 99, <<Arr(U32, 4), U32, U32, U32, U16, U8, U8>>, <<3, 4, 5, 6, 2, 0, 1>>, <<5,
    6, 4, 0, 1, 2, 3>>, <<4, 1, 1, 1, 1, 1, 1>>)
MAVLink_gimbal_device_attitude_status_message ==
    ArrayMessage(285, 137, <<U32, Arr(U32, 4), U32, U32, U32, U32, U16, U8, U8, U32, U32>>, <<2, 4,
    5, 6, 7, 8, 3, 0, 1, 9, 10>>, <<7, 8, 0, 6, 1, 2, 3, 4, 5, 9, 10>>, <<1, 4, 1, 1, 1, 1, 1, 1, 1,
    1, 1>>)
MAVLink_autopilot_state_for_gimbal_device_message ==
    ArrayMessage(286, 210, <<U64, Arr(U32, 4), U32, U32, U32, U32, U32, U32, U16, U8, U8, U8, U32>>,
    <<2, 3, 4, 5, 6, 7, 8, 9, 10, 0, 1, 11, 12>>, <<9, 10, 0, 1, 2, 3, 4, 5, 6, 7, 8, 11, 12>>, <<1,
    4, 1, 1, 1, 1, 1, 1, 1, 1, 1, 1, 1>>)
MAVLink_gimbal_manager_set_pitchyaw_message ==
    Message(287, 1, <<U32, U32, U32, U32, U32, U8, U8, U8>>, <<2, 4, 5, 6, 7, 0, 1, 3>>, <<5, 6, 0,
    7, 1, 2, 3, 4>>)
MAVLink_gimbal_manager_set_manual_control_message ==
    Message(288, 20, <<U32, U32, U32, U32, U32, U8, U8, U8>>, <<2, 4, 5, 6, 7, 0, 1, 3>>, <<5, 6, 0,
    7, 1, 2, 3, 4>>)
MAVLink_esc_info_message ==
    ArrayMessage(290, 251, <<U64, Arr(U32, 4), U16, Arr(U16, 4), Arr(U16, 4), U8, U8, U8, U8>>, <<1,
    7, 2, 6, 8, 0, 3, 4, 5>>, <<5, 0, 2, 6, 7, 8, 3, 1, 4>>, <<1, 4, 1, 4, 4, 1, 1, 1, 1>>)
MAVLink_esc_status_message ==
    ArrayMessage(291, 10, <<U64, Arr(U32, 4), Arr(U32, 4), Arr(U32, 4), U8>>, <<1, 2, 3, 4, 0>>,
    <<4, 0, 1, 2, 3>>, <<1, 4, 4, 4, 1>>)
MAVLink_wifi_config_ap_message ==
    Message(299, 19, <<Str(32), Str(64), U8, U8>>, Straight(4), Straight(4))
MAVLink_ais_vessel_message ==
    Message(301, 243, <<U32, U32, U32, U16, U16, U16, U16, U16, U16, U16, U8, U8, U8, U8, U8,
    Str(7), Str(20)>>, <<0, 1, 2, 3, 4, 5, 9, 10, 15, 16, 6, 7, 8, 11, 12, 13, 14>>, <<0, 1, 2, 3,
    4, 5, 10, 11, 12, 6, 7, 13, 14, 15, 16, 8, 9>>)
MAVLink_uavcan_node_status_message ==
    Message(310, 28, <<U64, U32, U16, U8, U8, U8>>, <<0, 1, 5, 2, 3, 4>>, <<0, 1, 3, 4, 5, 2>>)
MAVLink_uavcan_node_info_message ==
    ArrayMessage(311, 95, <<U64, U32, U32, Str(80), U8, U8, Arr(U8, 16), U8, U8>>, <<0, 1, 8, 2, 3,
    4, 5, 6, 7>>, <<0, 1, 3, 4, 5, 6, 7, 8, 2>>, <<1, 1, 1, 1, 1, 1, 16, 1, 1>>)
MAVLink_param_ext_request_read_message ==
    Message(320, 243, <<U16, U8, U8, Str(16)>>, <<3, 0, 1, 2>>, <<1, 2, 3, 0>>)
MAVLink_param_ext_request_list_message == Message(321, 88, <<U8, U8>>, Straight(2), Straight(2))
MAVLink_param_ext_value_message ==
    Message(322, 243, <<U16, U16, Str(16), Str(128), U8>>, <<3, 4, 0, 1, 2>>, <<2, 3, 4, 0, 1>>)
MAVLink_param_ext_set_message ==
    Message(323, 78, <<U8, U8, Str(16), Str(128), U8>>, Straight(5), Straight(5))
MAVLink_param_ext_ack_message ==
    Message(324, 132, <<Str(16), Str(128), U8, U8>>, Straight(4), Straight(4))
MAVLink_obstacle_distance_message ==
    ArrayMessage(330, 23, <<U64, Arr(U16, 72), U16, U16, U8, U8, U32, U32, U8>>, <<0, 2, 4, 5, 1, 3,
    6, 7, 8>>, <<0, 4, 1, 5, 2, 3, 6, 7, 8>>, <<1, 72, 1, 1, 1, 1, 1, 1, 1>>)
MAVLink_odometry_message ==
    ArrayMessage(331, 91, <<U64, U32, U32, U32, Arr(U32, 4), U32, U32, U32, U32, U32, U32, Arr(U32,
    21), Arr(U32, 21), U8, U8, U8, U8, U8>>, <<0, 3, 4, 5, 6, 7, 8, 9, 10, 11, 12, 13, 14, 1, 2, 15,
    16, 17>>, <<0, 13, 14, 1, 2, 3, 4, 5, 6, 7, 8, 9, 10, 11, 12, 15, 16, 17>>, <<1, 1, 1, 1, 4, 1,
    1, 1, 1, 1, 1, 21, 21, 1, 1, 1, 1, 1>>)
MAVLink_trajectory_representation_waypoints_message ==
    ArrayMessage(332, 236, <<U64, Arr(U32, 5), Arr(U32, 5), Arr(U32, 5), Arr(U32, 5), Arr(U32, 5),
    Arr(U32, 5), Arr(U32, 5), Arr(U32, 5), Arr(U32, 5), Arr(U32, 5), Arr(U32, 5), Arr(U16, 5), U8>>,
    <<0, 2, 3, 4, 5, 6, 7, 8, 9, 10, 11, 12, 13, 1>>, <<0, 13, 1, 2, 3, 4, 5, 6, 7, 8, 9, 10, 11,
    12>>, <<1, 5, 5, 5, 5, 5, 5, 5, 5, 5, 5, 5, 5, 1>>)
MAVLink_trajectory_representation_bezier_message ==
    ArrayMessage(333, 231, <<U64, Arr(U32, 5), Arr(U32, 5), Arr(U32, 5), Arr(U32, 5), Arr(U32, 5),
    U8>>, <<0, 2, 3, 4, 5, 6, 1>>, <<0, 6, 1, 2, 3, 4, 5>>, <<1, 5, 5, 5, 5, 5, 1>>)
MAVLink_cellular_status_message ==
    Message(334, 72, <<U16, U16, U16, U8, U8, U8, U8>>, <<4, 5, 6, 0, 1, 2, 3>>, <<3, 4, 5, 6, 0, 1,
    2>>)
MAVLink_isbd_link_status_message ==
    Message(335, 225, <<U64, U64, U16, U16, U8, U8, U8, U8>>, Straight(8), Straight(8))
MAVLink_cellular_config_message ==
    Message(336, 245, <<U8, U8, Str(16), Str(16), Str(32), Str(16), U8, U8>>, Straight(8),
    Straight(8))
MAVLink_raw_rpm_message == Message(339, 199, <<U32, U8>>, <<1, 0>>, <<1, 0>>)
MAVLink_utm_global_position_message ==
    ArrayMessage(340, 99, <<U64, U32, U32, U32, U32, U32, U32, U32, U16, U16, U16, U16, U16, U16,
    U16, Arr(U8, 18), U8, U8>>, <<0, 2, 3, 4, 5, 12, 13, 14, 6, 7, 8, 9, 10, 11, 15, 1, 16, 17>>,
    <<0, 15, 1, 2, 3, 4, 8, 9, 10, 11, 12, 13, 5, 6, 7, 14, 16, 17>>, <<1, 1, 1, 1, 1, 1, 1, 1, 1,
    1, 1, 1, 1, 1, 1, 18, 1, 1>>)
MAVLink_debug_float_array_message ==
    ArrayMessage(350, 232, <<U64, U16, Str(10), Arr(U32, 58)>>, <<0, 2, 1, 3>>, <<0, 2, 1, 3>>, <<1,
    1, 1, 58>>)
MAVLink_orbit_execution_status_message ==
    Message(360, 11, <<U64, U32, U32, U32, U32, U8>>, <<0, 1, 3, 4, 5, 2>>, <<0, 1, 5, 2, 3, 4>>)
MAVLink_smart_battery_info_message ==
    Message(370, 75, <<U32, U32, U16, U16, U16, U16, U16, U8, U8, U8, Str(16), Str(50), U16, U8,
    U32, U32, Str(11)>>, <<3, 4, 5, 8, 9, 10, 11, 0, 1, 2, 6, 7, 12, 13, 14, 15, 16>>, <<7, 8, 9, 0,
    1, 2, 10, 11, 3, 4, 5, 6, 12, 13, 14, 15, 16>>)
MAVLink_generator_status_message ==
    Message(373, 117, <<U64, U32, U32, U32, U32, U32, U32, U32, U16, U16, U16>>, <<0, 2, 3, 4, 5, 7,
    9, 10, 1, 6, 8>>, <<0, 8, 1, 2, 3, 4, 9, 5, 10, 6, 7>>)
MAVLink_actuator_output_status_message ==
    ArrayMessage(375, 251, <<U64, U32, Arr(U32, 32)>>, Straight(3), Straight(3), <<1, 1, 32>>)
MAVLink_time_estimate_to_target_message ==
    Message(380, 232, <<U32, U32, U32, U32, U32>>, Straight(5), Straight(5))
MAVLink_tunnel_message ==
    ArrayMessage(385, 147, <<U16, U8, U8, U8, Arr(U8, 128)>>, <<2, 0, 1, 3, 4>>, <<1, 2, 0, 3, 4>>,
    <<1, 1, 1, 1, 128>>)
MAVLink_can_frame_message ==
    ArrayMessage(386, 132, <<U32, U8, U8, U8, U8, Arr(U8, 8)>>, <<4, 0, 1, 2, 3, 5>>, <<1, 2, 3, 4,
    0, 5>>, <<1, 1, 1, 1, 1, 8>>)
MAVLink_onboard_computer_status_message ==
    ArrayMessage(390, 156, <<U64, U32, U32, U32, Arr(U32, 4), Arr(U32, 4), Arr(U32, 4), Arr(U32, 6),
    Arr(U32, 6), Arr(U32, 6), Arr(U32, 6), Arr(U32, 6), Arr(U16, 4), U8, Arr(U8, 8), Arr(U8, 10),
    Arr(U8, 4), Arr(U8, 10), U8, Arr(U8, 8)>>, <<0, 1, 10, 11, 12, 13, 14, 15, 16, 17, 18, 19, 9, 2,
    3, 4, 5, 6, 7, 8>>, <<0, 1, 13, 14, 15, 16, 17, 18, 19, 12, 2, 3, 4, 5, 6, 7, 8, 9, 10, 11>>,
    <<1, 1, 1, 1, 4, 4, 4, 6, 6, 6, 6, 6, 4, 1, 8, 10, 4, 10, 1, 8>>)
MAVLink_component_information_message ==
    Message(395, 0, <<U32, U32, U32, Str(100), Str(100)>>, <<0, 1, 3, 2, 4>>, <<0, 1, 3, 2, 4>>)
MAVLink_component_metadata_message ==
    Message(397, 182, <<U32, U32, Str(100)>>, Straight(3), Straight(3))
MAVLink_play_tune_v2_message ==
    Message(400, 110, <<U32, U8, U8, Str(248)>>, <<2, 0, 1, 3>>, <<1, 2, 0, 3>>)
MAVLink_supported_tunes_message == Message(401, 183, <<U32, U8, U8>>, <<2, 0, 1>>, <<1, 2, 0>>)
MAVLink_event_message ==
    ArrayMessage(410, 160, <<U32, U32, U16, U8, U8, U8, Arr(U8, 40)>>, <<2, 3, 4, 0, 1, 5, 6>>, <<3,
    4, 0, 1, 2, 5, 6>>, <<1, 1, 1, 1, 1, 1, 40>>)
MAVLink_current_event_sequence_message == Message(411, 106, <<U16, U8>>, Straight(2), Straight(2))
MAVLink_request_event_message ==
    Message(412, 33, <<U16, U16, U8, U8>>, <<2, 3, 0, 1>>, <<2, 3, 0, 1>>)
MAVLink_response_event_error_message ==
    Message(413, 77, <<U16, U16, U8, U8, U8>>, <<2, 3, 0, 1, 4>>, <<2, 3, 0, 1, 4>>)
MAVLink_canfd_frame_message ==
    ArrayMessage(387, 4, <<U32, U8, U8, U8, U8, Arr(U8, 64)>>, <<4, 0, 1, 2, 3, 5>>, <<1, 2, 3, 4,
    0, 5>>, <<1, 1, 1, 1, 1, 64>>)
MAVLink_can_filter_modify_message ==
    ArrayMessage(388, 8, <<Arr(U16, 16), U8, U8, U8, U8, U8>>, <<5, 0, 1, 2, 3, 4>>, <<1, 2, 3, 4,
    5, 0>>, <<16, 1, 1, 1, 1, 1>>)
MAVLink_wheel_distance_message ==
    ArrayMessage(9000, 113, <<U64, Arr(U64, 16), U8>>, <<0, 2, 1>>, <<0, 2, 1>>, <<1, 16, 1>>)
MAVLink_winch_status_message ==
    Message(9005, 117, <<U64, U32, U32, U32, U32, U32, U32, U16>>, <<0, 1, 2, 3, 4, 5, 7, 6>>, <<0,
    1, 2, 3, 4, 5, 7, 6>>)
MAVLink_open_drone_id_basic_id_message ==
    ArrayMessage(12900, 114, <<U8, U8, Arr(U8, 20), U8, U8, Arr(U8, 20)>>, Straight(6), Straight(6),
    <<1, 1, 20, 1, 1, 20>>)
MAVLink_open_drone_id_location_message ==
    ArrayMessage(12901, 254, <<U32, U32, U32, U32, U32, U32, U16, U16, U16, U8, U8, Arr(U8, 20), U8,
    U8, U8, U8, U8, U8, U8>>, <<7, 8, 9, 10, 12, 17, 4, 5, 6, 0, 1, 2, 3, 11, 13, 14, 15, 16, 18>>,
    <<9, 10, 11, 12, 6, 7, 8, 0, 1, 2, 3, 13, 4, 14, 15, 16, 17, 5, 18>>, <<1, 1, 1, 1, 1, 1, 1, 1,
    1, 1, 1, 20, 1, 1, 1, 1, 1, 1, 1>>)
MAVLink_open_drone_id_authentication_message ==
    ArrayMessage(12902, 140, <<U32, U8, U8, Arr(U8, 20), U8, U8, U8, U8, Arr(U8, 23)>>, <<7, 0, 1,
    2, 3, 4, 5, 6, 8>>, <<1, 2, 3, 4, 5, 6, 7, 0, 8>>, <<1, 1, 1, 20, 1, 1, 1, 1, 23>>)
MAVLink_open_drone_id_self_id_message ==
    ArrayMessage(12903, 249, <<U8, U8, Arr(U8, 20), U8, Str(23)>>, Straight(5), Straight(5), <<1, 1,
    20, 1, 1>>)
MAVLink_open_drone_id_system_message ==
    ArrayMessage(12904, 77, <<U32, U32, U32, U32, U32, U32, U16, U16, U8, U8, Arr(U8, 20), U8, U8,
    U8, U8>>, <<5, 6, 9, 10, 13, 14, 7, 8, 0, 1, 2, 3, 4, 11, 12>>, <<8, 9, 10, 11, 12, 0, 1, 6, 7,
    2, 3, 13, 14, 4, 5>>, <<1, 1, 1, 1, 1, 1, 1, 1, 1, 1, 20, 1, 1, 1, 1>>)
MAVLink_open_drone_id_operator_id_message ==
    ArrayMessage(12905, 49, <<U8, U8, Arr(U8, 20), U8, Str(20)>>, Straight(5), Straight(5), <<1, 1,
    20, 1, 1>>)
MAVLink_open_drone_id_message_pack_message ==
    ArrayMessage(12915, 94, <<U8, U8, Arr(U8, 20), U8, U8, Arr(U8, 225)>>, Straight(6), Straight(6),
    <<1, 1, 20, 1, 1, 225>>)
MAVLink_open_drone_id_arm_status_message ==
    Message(12918, 139, <<U8, Str(50)>>, Straight(2), Straight(2))
MAVLink_open_drone_id_system_update_message ==
    Message(12919, 7, <<U32, U32, U32, U32, U8, U8>>, <<2, 3, 4, 5, 0, 1>>, <<4, 5, 0, 1, 2, 3>>)
MAVLink_hygrometer_sensor_message == Message(12920, 20, <<U16, U16, U8>>, <<1, 2, 0>>, <<2, 0, 1>>)
MAVLink_protocol_version_message ==
    ArrayMessage(300, 217, <<U16, U16, U16, Arr(U8, 8), Arr(U8, 8)>>, Straight(5), Straight(5), <<1,
    1, 1, 8, 8>>)

-----------------------------------------------------------------------------
(* The classes that mavlink_map lists, and the lookup by message id.       *)
Classes == {
    MAVLink_sys_status_message, MAVLink_system_time_message, MAVLink_ping_message,
    MAVLink_change_operator_control_message, MAVLink_change_operator_control_ack_message,
    MAVLink_auth_key_message, MAVLink_link_node_status_message, MAVLink_set_mode_message,
    MAVLink_param_request_read_message, MAVLink_param_request_list_message,
    MAVLink_param_value_message, MAVLink_param_set_message, MAVLink_gps_raw_int_message,
    MAVLink_gps_status_message, MAVLink_scaled_imu_message, MAVLink_raw_imu_message,
    MAVLink_raw_pressure_message, MAVLink_scaled_pressure_message, MAVLink_attitude_message,
    MAVLink_attitude_quaternion_message, MAVLink_local_position_ned_message,
    MAVLink_global_position_int_message, MAVLink_rc_channels_scaled_message,
    MAVLink_rc_channels_raw_message, MAVLink_servo_output_raw_message,
    MAVLink_mission_request_partial_list_message, MAVLink_mission_write_partial_list_message,
    MAVLink_mission_item_message, MAVLink_mission_request_message,
    MAVLink_mission_set_current_message, MAVLink_mission_current_message,
    MAVLink_mission_request_list_message, MAVLink_mission_count_message,
    MAVLink_mission_clear_all_message, MAVLink_mission_item_reached_message,
    MAVLink_mission_ack_message, MAVLink_set_gps_global_origin_message,
    MAVLink_gps_global_origin_message, MAVLink_param_map_rc_message,
    MAVLink_mission_request_int_message, MAVLink_safety_set_allowed_area_message,
    MAVLink_safety_allowed_area_message, MAVLink_attitude_quaternion_cov_message,
    MAVLink_nav_controller_output_message, MAVLink_global_position_int_cov_message,
    MAVLink_local_position_ned_cov_message, MAVLink_rc_channels_message,
    MAVLink_request_data_stream_message, MAVLink_data_stream_message,
    MAVLink_manual_control_message, MAVLink_rc_channels_override_message,
    MAVLink_mission_item_int_message, MAVLink_vfr_hud_message, MAVLink_command_int_message,
    MAVLink_command_long_message, MAVLink_command_ack_message, MAVLink_command_cancel_message,
    MAVLink_manual_setpoint_message, MAVLink_set_attitude_target_message,
    MAVLink_attitude_target_message, MAVLink_set_position_target_local_ned_message,
    MAVLink_position_target_local_ned_message, MAVLink_set_position_target_global_int_message,
    MAVLink_position_target_global_int_message,
    MAVLink_local_position_ned_system_global_offset_message, MAVLink_hil_state_message,
    MAVLink_hil_controls_message, MAVLink_hil_rc_inputs_raw_message,
    MAVLink_hil_actuator_controls_message, MAVLink_optical_flow_message,
    MAVLink_global_vision_position_estimate_message, MAVLink_vision_position_estimate_message,
    MAVLink_vision_speed_estimate_message, MAVLink_vicon_position_estimate_message,
    MAVLink_highres_imu_message, MAVLink_optical_flow_rad_message, MAVLink_hil_sensor_message,
    MAVLink_sim_state_message, MAVLink_radio_status_message, MAVLink_file_transfer_protocol_message,
    MAVLink_timesync_message, MAVLink_camera_trigger_message, MAVLink_hil_gps_message,
    MAVLink_hil_optical_flow_message, MAVLink_hil_state_quaternion_message,
    MAVLink_scaled_imu2_message, MAVLink_log_request_list_message, MAVLink_log_entry_message,
    MAVLink_log_request_data_message, MAVLink_log_data_message, MAVLink_log_erase_message,
    MAVLink_log_request_end_message, MAVLink_gps_inject_data_message, MAVLink_gps2_raw_message,
    MAVLink_power_status_message, MAVLink_serial_control_message, MAVLink_gps_rtk_message,
    MAVLink_gps2_rtk_message, MAVLink_scaled_imu3_message,
    MAVLink_data_transmission_handshake_message, MAVLink_encapsulated_data_message,
    MAVLink_distance_sensor_message, MAVLink_terrain_request_message, MAVLink_terrain_data_message,
    MAVLink_terrain_check_message, MAVLink_terrain_report_message, MAVLink_scaled_pressure2_message,
    MAVLink_att_pos_mocap_message, MAVLink_set_actuator_control_target_message,
    MAVLink_actuator_control_target_message, MAVLink_altitude_message,
    MAVLink_resource_request_message, MAVLink_scaled_pressure3_message,
    MAVLink_follow_target_message, MAVLink_control_system_state_message,
    MAVLink_battery_status_message, MAVLink_autopilot_version_message,
    MAVLink_landing_target_message, MAVLink_fence_status_message, MAVLink_mag_cal_report_message,
    MAVLink_efi_status_message, MAVLink_estimator_status_message, MAVLink_wind_cov_message,
    MAVLink_gps_input_message, MAVLink_gps_rtcm_data_message, MAVLink_high_latency_message,
    MAVLink_high_latency2_message, MAVLink_vibration_message, MAVLink_home_position_message,
    MAVLink_set_home_position_message, MAVLink_message_interval_message,
    MAVLink_extended_sys_state_message, MAVLink_adsb_vehicle_message, MAVLink_collision_message,
    MAVLink_v2_extension_message, MAVLink_memory_vect_message, MAVLink_debug_vect_message,
    MAVLink_named_value_float_message, MAVLink_named_value_int_message, MAVLink_statustext_message,
    MAVLink_debug_message, MAVLink_setup_signing_message, MAVLink_button_change_message,
    MAVLink_play_tune_message, MAVLink_camera_information_message, MAVLink_camera_settings_message,
    MAVLink_storage_information_message, MAVLink_camera_capture_status_message,
    MAVLink_camera_image_captured_message, MAVLink_flight_information_message,
    MAVLink_mount_orientation_message, MAVLink_logging_data_message,
    MAVLink_logging_data_acked_message, MAVLink_logging_ack_message,
    MAVLink_video_stream_information_message, MAVLink_video_stream_status_message,
    MAVLink_camera_fov_status_message, MAVLink_camera_tracking_image_status_message,
    MAVLink_camera_tracking_geo_status_message, MAVLink_gimbal_manager_information_message,
    MAVLink_gimbal_manager_status_message, MAVLink_gimbal_manager_set_attitude_message,
    MAVLink_gimbal_device_information_message, MAVLink_gimbal_device_set_attitude_message,
    MAVLink_gimbal_device_attitude_status_message,
    MAVLink_autopilot_state_for_gimbal_device_message, MAVLink_gimbal_manager_set_pitchyaw_message,
    MAVLink_gimbal_manager_set_manual_control_message, MAVLink_esc_info_message,
    MAVLink_esc_status_message, MAVLink_wifi_config_ap_message, MAVLink_ais_vessel_message,
    MAVLink_uavcan_node_status_message, MAVLink_uavcan_node_info_message,
    MAVLink_param_ext_request_read_message, MAVLink_param_ext_request_list_message,
    MAVLink_param_ext_value_message, MAVLink_param_ext_set_message, MAVLink_param_ext_ack_message,
    MAVLink_obstacle_distance_message, MAVLink_odometry_message,
    MAVLink_trajectory_representation_waypoints_message,
    MAVLink_trajectory_representation_bezier_message, MAVLink_cellular_status_message,
    MAVLink_isbd_link_status_message, MAVLink_cellular_config_message, MAVLink_raw_rpm_message,
    MAVLink_utm_global_position_message, MAVLink_debug_float_array_message,
    MAVLink_orbit_execution_status_message, MAVLink_smart_battery_info_message,
    MAVLink_generator_status_message, MAVLink_actuator_output_status_message,
    MAVLink_time_estimate_to_target_message, MAVLink_tunnel_message, MAVLink_can_frame_message,
    MAVLink_onboard_computer_status_message, MAVLink_component_information_message,
    MAVLink_component_metadata_message, MAVLink_play_tune_v2_message,
    MAVLink_supported_tunes_message, MAVLink_event_message, MAVLink_current_event_sequence_message,
    MAVLink_request_event_message, MAVLink_response_event_error_message,
    MAVLink_canfd_frame_message, MAVLink_can_filter_modify_message, MAVLink_wheel_distance_message,
    MAVLink_winch_status_message, MAVLink_open_drone_id_basic_id_message,
    MAVLink_open_drone_id_location_message, MAVLink_open_drone_id_authentication_message,
    MAVLink_open_drone_id_self_id_message, MAVLink_open_drone_id_system_message,
    MAVLink_open_drone_id_operator_id_message, MAVLink_open_drone_id_message_pack_message,
    MAVLink_open_drone_id_arm_status_message, MAVLink_open_drone_id_system_update_message,
    MAVLink_hygrometer_sensor_message, MAVLink_heartbeat_message, MAVLink_protocol_version_message}
mavlink_map == [id \in {c.id : c \in Classes} |-> CHOOSE c \in Classes : c.id = id]

=============================================================================
