------------------------- MODULE MCBackendSelection -------------------------
(* BackendSelection on a machine with two Vulkan devices, whose driver may *)
(* turn into one that cannot be identified, or lose its devices.           *)
EXTENDS BackendSelection

MCIdentities == {"gpu", "unverified", "none"}
MCDeclared == <<"vulkan">>
MCDevicesOf ==
  [gpu |-> <<"vulkan", "vulkan">>, unverified |-> <<"vulkan">>, none |-> <<>>]
=============================================================================
