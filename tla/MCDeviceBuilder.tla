--------------------------- MODULE MCDeviceBuilder ---------------------------
(* DeviceBuilder with two calls that write options, with one that talks to   *)
(* the Device Builder while another starts or stops the add-on, and with     *)
(* each kind of the former alone: such calls meet only in the add-on.        *)
EXTENDS DeviceBuilder

CONSTANTS c1, c2

MCCalls == {c1, c2}
MCAsks ==
  {f \in [MCCalls -> Ops] :
     \/ f[c1] = "options" /\ f[c2] = "options"
     \/ f[c1] \in {"install", "restart", "stop"} /\ f[c2] = "http"
     \/ f[c1] = "none" /\ f[c2] \in BuilderOps}
MCFields == {"wifi.ssid", "wifi.psk", "ssl"}
MCNames == {{"wifi.ssid"}, {"wifi.psk", "ssl"}}
MCKeyOf == [f \in MCFields |-> IF f = "ssl" THEN "ssl" ELSE "wifi"]
=============================================================================
