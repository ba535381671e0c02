------------------------------ MODULE MavlinkSenders1 ------------------------------
(***************************************************************************)
(* The generated methods x_encode and x_send of class MAVLink              *)
(* (wfb_ng/mavlink.py): x_send hands its arguments to x_encode, which      *)
(* hands them to the constructor of the message class; the constructor     *)
(* stores its i-th argument as attribute fieldnames[i].  A definition here *)
(* is the whole chain: the class that is built, and the argument of x_send *)
(* that becomes its i-th attribute.  These are the messages that travel in *)
(* MAVLink 1 and 2.                                                        *)
(***************************************************************************)
EXTENDS MavlinkMessages1

Sends(class, arguments) == [class |-> class, arguments |-> arguments]

-----------------------------------------------------------------------------
sys_status_send == Sends(MAVLink_sys_status_message, Straight(16))
system_time_send == Sends(MAVLink_system_time_message, Straight(2))
ping_send == Sends(MAVLink_ping_message, Straight(4))
change_operator_control_send == Sends(MAVLink_change_operator_control_message, Straight(4))
change_operator_control_ack_send == Sends(MAVLink_change_operator_control_ack_message, Straight(3))
auth_key_send == Sends(MAVLink_auth_key_message, Straight(1))
link_node_status_send == Sends(MAVLink_link_node_status_message, Straight(11))
set_mode_send == Sends(MAVLink_set_mode_message, Straight(3))
param_request_read_send == Sends(MAVLink_param_request_read_message, Straight(4))
param_request_list_send == Sends(MAVLink_param_request_list_message, Straight(2))
param_value_send == Sends(MAVLink_param_value_message, Straight(5))
param_set_send == Sends(MAVLink_param_set_message, Straight(5))
gps_raw_int_send == Sends(MAVLink_gps_raw_int_message, Straight(16))
gps_status_send == Sends(MAVLink_gps_status_message, Straight(6))
scaled_imu_send == Sends(MAVLink_scaled_imu_message, Straight(11))
raw_imu_send == Sends(MAVLink_raw_imu_message, Straight(12))
raw_pressure_send == Sends(MAVLink_raw_pressure_message, Straight(5))
scaled_pressure_send == Sends(MAVLink_scaled_pressure_message, Straight(5))
attitude_send == Sends(MAVLink_attitude_message, Straight(7))
attitude_quaternion_send == Sends(MAVLink_attitude_quaternion_message, Straight(9))
local_position_ned_send == Sends(MAVLink_local_position_ned_message, Straight(7))
global_position_int_send == Sends(MAVLink_global_position_int_message, Straight(9))
rc_channels_scaled_send == Sends(MAVLink_rc_channels_scaled_message, Straight(11))
rc_channels_raw_send == Sends(MAVLink_rc_channels_raw_message, Straight(11))
servo_output_raw_send == Sends(MAVLink_servo_output_raw_message, Straight(18))
mission_request_partial_list_send ==
    Sends(MAVLink_mission_request_partial_list_message, Straight(5))
mission_write_partial_list_send == Sends(MAVLink_mission_write_partial_list_message, Straight(5))
mission_item_send == Sends(MAVLink_mission_item_message, Straight(15))
mission_request_send == Sends(MAVLink_mission_request_message, Straight(4))
mission_set_current_send == Sends(MAVLink_mission_set_current_message, Straight(3))
mission_current_send == Sends(MAVLink_mission_current_message, Straight(4))
mission_request_list_send == Sends(MAVLink_mission_request_list_message, Straight(3))
mission_count_send == Sends(MAVLink_mission_count_message, Straight(4))
mission_clear_all_send == Sends(MAVLink_mission_clear_all_message, Straight(3))
mission_item_reached_send == Sends(MAVLink_mission_item_reached_message, Straight(1))
mission_ack_send == Sends(MAVLink_mission_ack_message, Straight(4))
set_gps_global_origin_send == Sends(MAVLink_set_gps_global_origin_message, Straight(5))
gps_global_origin_send == Sends(MAVLink_gps_global_origin_message, Straight(4))
param_map_rc_send == Sends(MAVLink_param_map_rc_message, Straight(9))
mission_request_int_send == Sends(MAVLink_mission_request_int_message, Straight(4))
safety_set_allowed_area_send == Sends(MAVLink_safety_set_allowed_area_message, Straight(9))
safety_allowed_area_send == Sends(MAVLink_safety_allowed_area_message, Straight(7))
attitude_quaternion_cov_send == Sends(MAVLink_attitude_quaternion_cov_message, Straight(6))
nav_controller_output_send == Sends(MAVLink_nav_controller_output_message, Straight(8))
global_position_int_cov_send == Sends(MAVLink_global_position_int_cov_message, Straight(10))
local_position_ned_cov_send == Sends(MAVLink_local_position_ned_cov_message, Straight(12))
rc_channels_send == Sends(MAVLink_rc_channels_message, Straight(21))
request_data_stream_send == Sends(MAVLink_request_data_stream_message, Straight(5))
data_stream_send == Sends(MAVLink_data_stream_message, Straight(3))
manual_control_send == Sends(MAVLink_manual_control_message, Straight(10))
rc_channels_override_send == Sends(MAVLink_rc_channels_override_message, Straight(20))
mission_item_int_send == Sends(MAVLink_mission_item_int_message, Straight(15))
vfr_hud_send == Sends(MAVLink_vfr_hud_message, Straight(6))
command_int_send == Sends(MAVLink_command_int_message, Straight(13))
command_long_send == Sends(MAVLink_command_long_message, Straight(11))
command_ack_send == Sends(MAVLink_command_ack_message, Straight(6))
command_cancel_send == Sends(MAVLink_command_cancel_message, Straight(3))
manual_setpoint_send == Sends(MAVLink_manual_setpoint_message, Straight(7))
set_attitude_target_send == Sends(MAVLink_set_attitude_target_message, Straight(10))
attitude_target_send == Sends(MAVLink_attitude_target_message, Straight(7))
set_position_target_local_ned_send ==
    Sends(MAVLink_set_position_target_local_ned_message, Straight(16))
position_target_local_ned_send == Sends(MAVLink_position_target_local_ned_message, Straight(14))
set_position_target_global_int_send ==
    Sends(MAVLink_set_position_target_global_int_message, Straight(16))
position_target_global_int_send == Sends(MAVLink_position_target_global_int_message, Straight(14))
local_position_ned_system_global_offset_send ==
    Sends(MAVLink_local_position_ned_system_global_offset_message, Straight(7))
hil_state_send == Sends(MAVLink_hil_state_message, Straight(16))
hil_controls_send == Sends(MAVLink_hil_controls_message, Straight(11))
hil_rc_inputs_raw_send == Sends(MAVLink_hil_rc_inputs_raw_message, Straight(14))
hil_actuator_controls_send == Sends(MAVLink_hil_actuator_controls_message, Straight(4))
optical_flow_send == Sends(MAVLink_optical_flow_message, Straight(10))
global_vision_position_estimate_send ==
    Sends(MAVLink_global_vision_position_estimate_message, Straight(9))
vision_position_estimate_send == Sends(MAVLink_vision_position_estimate_message, Straight(9))
vision_speed_estimate_send == Sends(MAVLink_vision_speed_estimate_message, Straight(6))
vicon_position_estimate_send == Sends(MAVLink_vicon_position_estimate_message, Straight(8))
highres_imu_send == Sends(MAVLink_highres_imu_message, Straight(16))
optical_flow_rad_send == Sends(MAVLink_optical_flow_rad_message, Straight(12))
hil_sensor_send == Sends(MAVLink_hil_sensor_message, Straight(16))
sim_state_send == Sends(MAVLink_sim_state_message, Straight(23))
radio_status_send == Sends(MAVLink_radio_status_message, Straight(7))
file_transfer_protocol_send == Sends(MAVLink_file_transfer_protocol_message, Straight(4))
timesync_send == Sends(MAVLink_timesync_message, Straight(4))
camera_trigger_send == Sends(MAVLink_camera_trigger_message, Straight(2))
hil_gps_send == Sends(MAVLink_hil_gps_message, Straight(15))
hil_optical_flow_send == Sends(MAVLink_hil_optical_flow_message, Straight(12))
hil_state_quaternion_send == Sends(MAVLink_hil_state_quaternion_message, Straight(16))
scaled_imu2_send == Sends(MAVLink_scaled_imu2_message, Straight(11))
log_request_list_send == Sends(MAVLink_log_request_list_message, Straight(4))
log_entry_send == Sends(MAVLink_log_entry_message, Straight(5))
log_request_data_send == Sends(MAVLink_log_request_data_message, Straight(5))
log_data_send == Sends(MAVLink_log_data_message, Straight(4))
log_erase_send == Sends(MAVLink_log_erase_message, Straight(2))
log_request_end_send == Sends(MAVLink_log_request_end_message, Straight(2))
gps_inject_data_send == Sends(MAVLink_gps_inject_data_message, Straight(4))
gps2_raw_send == Sends(MAVLink_gps2_raw_message, Straight(18))
power_status_send == Sends(MAVLink_power_status_message, Straight(3))
serial_control_send == Sends(MAVLink_serial_control_message, Straight(8))
gps_rtk_send == Sends(MAVLink_gps_rtk_message, Straight(13))
gps2_rtk_send == Sends(MAVLink_gps2_rtk_message, Straight(13))
scaled_imu3_send == Sends(MAVLink_scaled_imu3_message, Straight(11))
data_transmission_handshake_send == Sends(MAVLink_data_transmission_handshake_message, Straight(7))
encapsulated_data_send == Sends(MAVLink_encapsulated_data_message, Straight(2))
distance_sensor_send == Sends(MAVLink_distance_sensor_message, Straight(12))
terrain_request_send == Sends(MAVLink_terrain_request_message, Straight(4))
terrain_data_send == Sends(MAVLink_terrain_data_message, Straight(5))
terrain_check_send == Sends(MAVLink_terrain_check_message, Straight(2))
terrain_report_send == Sends(MAVLink_terrain_report_message, Straight(7))
scaled_pressure2_send == Sends(MAVLink_scaled_pressure2_message, Straight(5))
att_pos_mocap_send == Sends(MAVLink_att_pos_mocap_message, Straight(6))
set_actuator_control_target_send == Sends(MAVLink_set_actuator_control_target_message, Straight(5))
actuator_control_target_send == Sends(MAVLink_actuator_control_target_message, Straight(3))
altitude_send == Sends(MAVLink_altitude_message, Straight(7))
resource_request_send == Sends(MAVLink_resource_request_message, Straight(5))
scaled_pressure3_send == Sends(MAVLink_scaled_pressure3_message, Straight(5))
follow_target_send == Sends(MAVLink_follow_target_message, Straight(11))
control_system_state_send == Sends(MAVLink_control_system_state_message, Straight(17))
battery_status_send == Sends(MAVLink_battery_status_message, Straight(14))
autopilot_version_send == Sends(MAVLink_autopilot_version_message, Straight(12))
landing_target_send == Sends(MAVLink_landing_target_message, Straight(14))
fence_status_send == Sends(MAVLink_fence_status_message, Straight(5))
mag_cal_report_send == Sends(MAVLink_mag_cal_report_message, Straight(18))
efi_status_send == Sends(MAVLink_efi_status_message, Straight(18))
estimator_status_send == Sends(MAVLink_estimator_status_message, Straight(10))
wind_cov_send == Sends(MAVLink_wind_cov_message, Straight(9))
gps_input_send == Sends(MAVLink_gps_input_message, Straight(19))
gps_rtcm_data_send == Sends(MAVLink_gps_rtcm_data_message, Straight(3))
high_latency_send == Sends(MAVLink_high_latency_message, Straight(24))
high_latency2_send == Sends(MAVLink_high_latency2_message, Straight(27))
vibration_send == Sends(MAVLink_vibration_message, Straight(7))
home_position_send == Sends(MAVLink_home_position_message, Straight(11))
set_home_position_send == Sends(MAVLink_set_home_position_message, Straight(12))
message_interval_send == Sends(MAVLink_message_interval_message, Straight(2))
extended_sys_state_send == Sends(MAVLink_extended_sys_state_message, Straight(2))
adsb_vehicle_send == Sends(MAVLink_adsb_vehicle_message, Straight(13))
collision_send == Sends(MAVLink_collision_message, Straight(7))
v2_extension_send == Sends(MAVLink_v2_extension_message, Straight(5))
memory_vect_send == Sends(MAVLink_memory_vect_message, Straight(4))
debug_vect_send == Sends(MAVLink_debug_vect_message, Straight(5))
named_value_float_send == Sends(MAVLink_named_value_float_message, Straight(3))
named_value_int_send == Sends(MAVLink_named_value_int_message, Straight(3))
statustext_send == Sends(MAVLink_statustext_message, Straight(4))
debug_send == Sends(MAVLink_debug_message, Straight(3))
heartbeat_send == Sends(MAVLink_heartbeat_message, Straight(6))

=============================================================================
