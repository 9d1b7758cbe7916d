--------------------------- MODULE MCDeviceSearch ---------------------------
(***************************************************************************)
(* A host whose one instance speaks http, met at two addresses, and one in *)
(* its subnet that speaks https and announces itself; the packet of this   *)
(* process; an mDNS service of the second device, and one that lacks its   *)
(* fingerprint.  Times are in half seconds.                                *)
(***************************************************************************)
EXTENDS DeviceSearch, TLC

CONSTANTS a1, own, m1, m2

MCKeyOf == a1 :> "peer" @@ own :> "me" @@ m1 :> "third" @@ m2 :> "none"
MCAddressOf ==
  a1 :> <<"10.0.0.2", 1>> @@ own :> <<"10.0.0.1", 0>>
    @@ m1 :> <<"10.0.0.2", 1>> @@ m2 :> <<"10.0.0.4", 1>>
MCSubnet == "10.0.0.1" :> {"10.0.0.1", "10.0.0.2"}
MCSpeaks ==
  <<"10.0.0.1", 1>> :> {"http"} @@ <<"127.0.0.1", 1>> :> {"http"}
    @@ <<"10.0.0.2", 1>> :> {"https"}

=============================================================================
