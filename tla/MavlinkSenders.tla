------------------------------ MODULE MavlinkSenders ------------------------------
(***************************************************************************)
(* The methods x_encode and x_send of class MAVLink (wfb_ng/mavlink.py) of *)
(* the messages that only MAVLink 2 can carry, and all such methods.       *)
(***************************************************************************)
EXTENDS MavlinkMessages, MavlinkSenders1

setup_signing_send == Sends(MAVLink_setup_signing_message, Straight(4))
button_change_send == Sends(MAVLink_button_change_message, Straight(3))
play_tune_send == Sends(MAVLink_play_tune_message, Straight(4))
camera_information_send == Sends(MAVLink_camera_information_message, Straight(13))
camera_settings_send == Sends(MAVLink_camera_settings_message, Straight(4))
storage_information_send == Sends(MAVLink_storage_information_message, Straight(12))
camera_capture_status_send == Sends(MAVLink_camera_capture_status_message, Straight(7))
camera_image_captured_send == Sends(MAVLink_camera_image_captured_message, Straight(11))
flight_information_send == Sends(MAVLink_flight_information_message, Straight(4))
mount_orientation_send == Sends(MAVLink_mount_orientation_message, Straight(5))
logging_data_send == Sends(MAVLink_logging_data_message, Straight(6))
logging_data_acked_send == Sends(MAVLink_logging_data_acked_message, Straight(6))
logging_ack_send == Sends(MAVLink_logging_ack_message, Straight(3))
video_stream_information_send == Sends(MAVLink_video_stream_information_message, Straight(12))
video_stream_status_send == Sends(MAVLink_video_stream_status_message, Straight(8))
camera_fov_status_send == Sends(MAVLink_camera_fov_status_message, Straight(10))
camera_tracking_image_status_send ==
    Sends(MAVLink_camera_tracking_image_status_message, Straight(10))
camera_tracking_geo_status_send == Sends(MAVLink_camera_tracking_geo_status_message, Straight(13))
gimbal_manager_information_send == Sends(MAVLink_gimbal_manager_information_message, Straight(9))
gimbal_manager_status_send == Sends(MAVLink_gimbal_manager_status_message, Straight(7))
gimbal_manager_set_attitude_send == Sends(MAVLink_gimbal_manager_set_attitude_message, Straight(8))
gimbal_device_information_send == Sends(MAVLink_gimbal_device_information_message, Straight(15))
gimbal_device_set_attitude_send == Sends(MAVLink_gimbal_device_set_attitude_message, Straight(7))
gimbal_device_attitude_status_send ==
    Sends(MAVLink_gimbal_device_attitude_status_message, Straight(11))
autopilot_state_for_gimbal_device_send ==
    Sends(MAVLink_autopilot_state_for_gimbal_device_message, Straight(13))
gimbal_manager_set_pitchyaw_send == Sends(MAVLink_gimbal_manager_set_pitchyaw_message, Straight(8))
gimbal_manager_set_manual_control_send ==
    Sends(MAVLink_gimbal_manager_set_manual_control_message, Straight(8))
esc_info_send == Sends(MAVLink_esc_info_message, Straight(9))
esc_status_send == Sends(MAVLink_esc_status_message, Straight(5))
wifi_config_ap_send == Sends(MAVLink_wifi_config_ap_message, Straight(4))
ais_vessel_send == Sends(MAVLink_ais_vessel_message, Straight(17))
uavcan_node_status_send == Sends(MAVLink_uavcan_node_status_message, Straight(6))
uavcan_node_info_send == Sends(MAVLink_uavcan_node_info_message, Straight(9))
param_ext_request_read_send == Sends(MAVLink_param_ext_request_read_message, Straight(4))
param_ext_request_list_send == Sends(MAVLink_param_ext_request_list_message, Straight(2))
param_ext_value_send == Sends(MAVLink_param_ext_value_message, Straight(5))
param_ext_set_send == Sends(MAVLink_param_ext_set_message, Straight(5))
param_ext_ack_send == Sends(MAVLink_param_ext_ack_message, Straight(4))
obstacle_distance_send == Sends(MAVLink_obstacle_distance_message, Straight(9))
odometry_send == Sends(MAVLink_odometry_message, Straight(18))
trajectory_representation_waypoints_send ==
    Sends(MAVLink_trajectory_representation_waypoints_message, Straight(14))
trajectory_representation_bezier_send ==
    Sends(MAVLink_trajectory_representation_bezier_message, Straight(7))
cellular_status_send == Sends(MAVLink_cellular_status_message, Straight(7))
isbd_link_status_send == Sends(MAVLink_isbd_link_status_message, Straight(8))
cellular_config_send == Sends(MAVLink_cellular_config_message, Straight(8))
raw_rpm_send == Sends(MAVLink_raw_rpm_message, Straight(2))
utm_global_position_send == Sends(MAVLink_utm_global_position_message, Straight(18))
debug_float_array_send == Sends(MAVLink_debug_float_array_message, Straight(4))
orbit_execution_status_send == Sends(MAVLink_orbit_execution_status_message, Straight(6))
smart_battery_info_send == Sends(MAVLink_smart_battery_info_message, Straight(17))
generator_status_send == Sends(MAVLink_generator_status_message, Straight(11))
actuator_output_status_send == Sends(MAVLink_actuator_output_status_message, Straight(3))
time_estimate_to_target_send == Sends(MAVLink_time_estimate_to_target_message, Straight(5))
tunnel_send == Sends(MAVLink_tunnel_message, Straight(5))
can_frame_send == Sends(MAVLink_can_frame_message, Straight(6))
onboard_computer_status_send == Sends(MAVLink_onboard_computer_status_message, Straight(20))
component_information_send == Sends(MAVLink_component_information_message, Straight(5))
component_metadata_send == Sends(MAVLink_component_metadata_message, Straight(3))
play_tune_v2_send == Sends(MAVLink_play_tune_v2_message, Straight(4))
supported_tunes_send == Sends(MAVLink_supported_tunes_message, Straight(3))
event_send == Sends(MAVLink_event_message, Straight(7))
current_event_sequence_send == Sends(MAVLink_current_event_sequence_message, Straight(2))
request_event_send == Sends(MAVLink_request_event_message, Straight(4))
response_event_error_send == Sends(MAVLink_response_event_error_message, Straight(5))
canfd_frame_send == Sends(MAVLink_canfd_frame_message, Straight(6))
can_filter_modify_send == Sends(MAVLink_can_filter_modify_message, Straight(6))
wheel_distance_send == Sends(MAVLink_wheel_distance_message, Straight(3))
winch_status_send == Sends(MAVLink_winch_status_message, Straight(8))
open_drone_id_basic_id_send == Sends(MAVLink_open_drone_id_basic_id_message, Straight(6))
open_drone_id_location_send == Sends(MAVLink_open_drone_id_location_message, Straight(19))
open_drone_id_authentication_send ==
    Sends(MAVLink_open_drone_id_authentication_message, Straight(9))
open_drone_id_self_id_send == Sends(MAVLink_open_drone_id_self_id_message, Straight(5))
open_drone_id_system_send == Sends(MAVLink_open_drone_id_system_message, Straight(15))
open_drone_id_operator_id_send == Sends(MAVLink_open_drone_id_operator_id_message, Straight(5))
open_drone_id_message_pack_send == Sends(MAVLink_open_drone_id_message_pack_message, Straight(6))
open_drone_id_arm_status_send == Sends(MAVLink_open_drone_id_arm_status_message, Straight(2))
open_drone_id_system_update_send == Sends(MAVLink_open_drone_id_system_update_message, Straight(6))
hygrometer_sensor_send == Sends(MAVLink_hygrometer_sensor_message, Straight(3))
protocol_version_send == Sends(MAVLink_protocol_version_message, Straight(5))

-----------------------------------------------------------------------------
Senders == {
    sys_status_send, system_time_send, ping_send, change_operator_control_send,
    change_operator_control_ack_send, auth_key_send, link_node_status_send, set_mode_send,
    param_request_read_send, param_request_list_send, param_value_send, param_set_send,
    gps_raw_int_send, gps_status_send, scaled_imu_send, raw_imu_send, raw_pressure_send,
    scaled_pressure_send, attitude_send, attitude_quaternion_send, local_position_ned_send,
    global_position_int_send, rc_channels_scaled_send, rc_channels_raw_send, servo_output_raw_send,
    mission_request_partial_list_send, mission_write_partial_list_send, mission_item_send,
    mission_request_send, mission_set_current_send, mission_current_send, mission_request_list_send,
    mission_count_send, mission_clear_all_send, mission_item_reached_send, mission_ack_send,
    set_gps_global_origin_send, gps_global_origin_send, param_map_rc_send, mission_request_int_send,
    safety_set_allowed_area_send, safety_allowed_area_send, attitude_quaternion_cov_send,
    nav_controller_output_send, global_position_int_cov_send, local_position_ned_cov_send,
    rc_channels_send, request_data_stream_send, data_stream_send, manual_control_send,
    rc_channels_override_send, mission_item_int_send, vfr_hud_send, command_int_send,
    command_long_send, command_ack_send, command_cancel_send, manual_setpoint_send,
    set_attitude_target_send, attitude_target_send, set_position_target_local_ned_send,
    position_target_local_ned_send, set_position_target_global_int_send,
    position_target_global_int_send, local_position_ned_system_global_offset_send, hil_state_send,
    hil_controls_send, hil_rc_inputs_raw_send, hil_actuator_controls_send, optical_flow_send,
    global_vision_position_estimate_send, vision_position_estimate_send, vision_speed_estimate_send,
    vicon_position_estimate_send, highres_imu_send, optical_flow_rad_send, hil_sensor_send,
    sim_state_send, radio_status_send, file_transfer_protocol_send, timesync_send,
    camera_trigger_send, hil_gps_send, hil_optical_flow_send, hil_state_quaternion_send,
    scaled_imu2_send, log_request_list_send, log_entry_send, log_request_data_send, log_data_send,
    log_erase_send, log_request_end_send, gps_inject_data_send, gps2_raw_send, power_status_send,
    serial_control_send, gps_rtk_send, gps2_rtk_send, scaled_imu3_send,
    data_transmission_handshake_send, encapsulated_data_send, distance_sensor_send,
    terrain_request_send, terrain_data_send, terrain_check_send, terrain_report_send,
    scaled_pressure2_send, att_pos_mocap_send, set_actuator_control_target_send,
    actuator_control_target_send, altitude_send, resource_request_send, scaled_pressure3_send,
    follow_target_send, control_system_state_send, battery_status_send, autopilot_version_send,
    landing_target_send, fence_status_send, mag_cal_report_send, efi_status_send,
    estimator_status_send, wind_cov_send, gps_input_send, gps_rtcm_data_send, high_latency_send,
    high_latency2_send, vibration_send, home_position_send, set_home_position_send,
    message_interval_send, extended_sys_state_send, adsb_vehicle_send, collision_send,
    v2_extension_send, memory_vect_send, debug_vect_send, named_value_float_send,
    named_value_int_send, statustext_send, debug_send, setup_signing_send, button_change_send,
    play_tune_send, camera_information_send, camera_settings_send, storage_information_send,
    camera_capture_status_send, camera_image_captured_send, flight_information_send,
    mount_orientation_send, logging_data_send, logging_data_acked_send, logging_ack_send,
    video_stream_information_send, video_stream_status_send, camera_fov_status_send,
    camera_tracking_image_status_send, camera_tracking_geo_status_send,
    gimbal_manager_information_send, gimbal_manager_status_send, gimbal_manager_set_attitude_send,
    gimbal_device_information_send, gimbal_device_set_attitude_send,
    gimbal_device_attitude_status_send, autopilot_state_for_gimbal_device_send,
    gimbal_manager_set_pitchyaw_send, gimbal_manager_set_manual_control_send, esc_info_send,
    esc_status_send, wifi_config_ap_send, ais_vessel_send, uavcan_node_status_send,
    uavcan_node_info_send, param_ext_request_read_send, param_ext_request_list_send,
    param_ext_value_send, param_ext_set_send, param_ext_ack_send, obstacle_distance_send,
    odometry_send, trajectory_representation_waypoints_send, trajectory_representation_bezier_send,
    cellular_status_send, isbd_link_status_send, cellular_config_send, raw_rpm_send,
    utm_global_position_send, debug_float_array_send, orbit_execution_status_send,
    smart_battery_info_send, generator_status_send, actuator_output_status_send,
    time_estimate_to_target_send, tunnel_send, can_frame_send, onboard_computer_status_send,
    component_information_send, component_metadata_send, play_tune_v2_send, supported_tunes_send,
    event_send, current_event_sequence_send, request_event_send, response_event_error_send,
    canfd_frame_send, can_filter_modify_send, wheel_distance_send, winch_status_send,
    open_drone_id_basic_id_send, open_drone_id_location_send, open_drone_id_authentication_send,
    open_drone_id_self_id_send, open_drone_id_system_send, open_drone_id_operator_id_send,
    open_drone_id_message_pack_send, open_drone_id_arm_status_send,
    open_drone_id_system_update_send, hygrometer_sensor_send, heartbeat_send, protocol_version_send}

=============================================================================
