------------------------------ MODULE Protocol ------------------------------
(***************************************************************************)
(* The command table of the companion protocol: which commands exist,      *)
(* which replies end them and which broker policy each one carries.        *)
(*                                                                         *)
(* A command is a record [op, arg].  `op` is the descriptor's name; `arg`  *)
(* is the only field of the payload the broker looks at: the flood scope   *)
(* of SET_FLOOD_SCOPE_KEY (0 is the default scope), the text type of       *)
(* SEND_TXT_MSG, the peer or (tag, auth) pair of a remote request, the     *)
(* byte count of SIGN_DATA, the index of GET_CHANNEL, the subtype of       *)
(* GET_STATS and the target version of DEVICE_QUERY.                       *)
(*                                                                         *)
(* A frame from the companion is a record [code, arg]: `arg` is the inbox  *)
(* item of a message, the reason of an ERR, the token of a SENT or of a    *)
(* confirmation, the peer or tag of a remote result, the byte limit of     *)
(* SIGN_START, the index or subtype echoed by CHANNEL_INFO and STATS.      *)
(***************************************************************************)
EXTENDS Naturals

\* The one ERR reason the broker reads in a reply (SIGN_DATA, SIGN_FINISH).
ErrBadState == 4

\* SELF_INFO's key prefix, as the peer of the companion's own telemetry.
SelfKey == 0

DefaultScope == 0

Sync == [op |-> "sync_next_message", arg |-> 0]
SetScope(scope) == [op |-> "set_flood_scope_key", arg |-> scope]

\* Commands that end with the one-byte OK.
OkOps ==
  {"send_channel_txt_msg", "set_device_time", "send_self_advert",
   "set_advert_name", "add_update_contact", "set_radio_params",
   "set_radio_tx_power", "reset_path", "set_advert_latlon", "remove_contact",
   "share_contact", "import_contact", "set_tuning_params",
   "import_private_key", "send_raw_data", "has_connection", "logout",
   "set_channel", "sign_data", "set_device_pin", "set_other_params",
   "set_custom_var", "factory_reset", "set_flood_scope_key",
   "send_control_data", "set_autoadd_config", "set_path_hash_mode",
   "send_channel_data", "set_default_flood_scope", "send_raw_packet"}

\* Commands that end with one frame of their own code.
ValueReply ==
  [app_start |-> "self_info", get_device_time |-> "current_time",
   export_contact |-> "export_contact",
   get_batt_and_storage |-> "battery_and_storage",
   device_query |-> "device_info", export_private_key |-> "private_key",
   get_contact_by_key |-> "contact", get_channel |-> "channel_info",
   sign_start |-> "sign_start", sign_finish |-> "signature",
   self_telemetry |-> "telemetry_response", get_custom_vars |-> "custom_vars",
   get_advert_path |-> "advert_path", get_tuning_params |-> "tuning_params",
   get_stats |-> "stats", get_autoadd_config |-> "autoadd_config",
   get_allowed_repeat_freq |-> "allowed_repeat_freq",
   get_default_flood_scope |-> "default_flood_scope",
   run_cli_command |-> "cli_reply"]

\* CommandFlags::RemoteLease; "send_telemetry_req" is the form that names a
\* peer, "self_telemetry" the four-byte form of the same opcode.
RemoteLease ==
  {"send_login", "send_status_req", "send_trace_path", "send_telemetry_req",
   "send_binary_req", "send_path_discovery_req", "send_anon_req"}

ScopeSend ==
  (RemoteLease \ {"send_trace_path"})
    \cup {"send_txt_msg", "send_channel_txt_msg", "send_channel_data"}

Signing == {"sign_start", "sign_data", "sign_finish"}
Maintenance == {"reboot", "import_private_key", "factory_reset"}

\* What validate_command refuses: an opcode outside the table, and a known
\* opcode whose payload has the wrong shape.
InvalidOps == {"unknown", "malformed"}

\* Every `op`: the descriptors, the invalid ones, and "none" for no command.
Ops ==
  OkOps \cup RemoteLease \cup DOMAIN ValueReply \cup InvalidOps
    \cup {"get_contacts", "sync_next_message", "send_txt_msg", "reboot", "none"}

\* The replies other than ERR that DESCRIPTORS allows.
SuccessCodes(op) ==
  CASE op = "get_contacts" -> {"contacts_start", "contact", "end_of_contacts"}
    [] op = "sync_next_message" -> {"message", "no_more_messages"}
    [] op = "import_private_key" -> {"ok", "disabled"}
    [] op = "export_private_key" -> {"private_key", "disabled"}
    [] op = "reboot" -> {}
    [] op \in RemoteLease \cup {"send_txt_msg"} -> {"sent"}
    [] op \in OkOps \ {"import_private_key"} -> {"ok"}
    [] op \in DOMAIN ValueReply \ {"export_private_key"} -> {ValueReply[op]}
    [] OTHER -> {}

PlainDm(command) == command.op = "send_txt_msg" /\ command.arg = 0

\* Pushes that end a remote request, and the request kinds each one ends.
RemotePushes ==
  [login_success |-> {"send_login"}, login_failure |-> {"send_login"},
   status_response |-> {"send_status_req"},
   trace_data |-> {"send_trace_path"},
   telemetry_response |-> {"send_telemetry_req"},
   binary_response |-> {"send_binary_req", "send_anon_req"},
   path_discovery_response |-> {"send_path_discovery_req"}]

\* Codes from 0x80 up; "push" stands for ADVERT and every other broadcast.
PushCodes ==
  DOMAIN RemotePushes \cup {"msg_waiting", "send_confirmed", "push"}

\* validate_response_shape!: the length and the fixed bytes that a frame of
\* each code must have are abstracted to one code for the frames without them.
Malformed(f) == f.code = "malformed"

\* validate_response!: does frame f answer `command`, whose contacts stream
\* has (started) or has not begun?  ERR answers every command.
ValidEveryTime(command, started, f) ==
  f.code = "err" \/ (f.code \in SuccessCodes(command.op) /\ ~ started)
ValidResponse(command, started, f) ==
  \/ f.code = "err"
  \/ /\ f.code \in SuccessCodes(command.op)
     /\ command.op = "get_contacts" => (started <=> f.code # "contacts_start")
     /\ f.code \in {"channel_info", "stats"} => f.arg = command.arg

\* ResponseDisposition::Complete: only END (or ERR) ends a contacts stream.
EveryFrameCompletes(command, f) == TRUE
Completes(command, f) ==
  ~ (command.op = "get_contacts" /\ f.code \in {"contacts_start", "contact"})
=============================================================================
