---------------------------- MODULE MCDeviceConfig ----------------------------
(* The request bodies TLC tries with DeviceConfig. *)
EXTENDS DeviceConfig

\* Good and zero bitrates and one beyond UintMax, empty and long hosts, pins in
\* and out of range, several fields at once, and a field the firmware ignores.
Bodies == {
  "default_bitrate" :> 64000,
  "default_bitrate" :> 300000 @@ "i2s_ws" :> 15,
  "default_bitrate" :> 0 @@ "complexity" :> 8,
  "default_bitrate" :> 32000 @@ "i2s_bclk" :> 48,
  "server_host" :> "audio.local" @@ "i2s_ws" :> 47 @@ "i2s_din" :> 5,
  "server_host" :> "a host of 128 characters",
  "i2s_bclk" :> 6 @@ "i2s_ws" :> -1,
  "server_host" :> "",
  Empty }
=============================================================================
