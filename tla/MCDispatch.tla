----------------------------- MODULE MCDispatch -----------------------------
(***************************************************************************)
(* An instance of Dispatch with two extension modules and an unsigned char *)
(* of 16 values: events have codes below 8 and errors codes below 16, as   *)
(* they have codes below 128 and 256 in the protocol.                      *)
(***************************************************************************)
EXTENDS Dispatch, TLC

CONSTANTS render, xfixes

MCByte == 16
MCEventNums == (Core :> {2, 3}) @@ (render :> {0, 1}) @@ (xfixes :> {0})
MCErrorNums == (Core :> {1, 3}) @@ (render :> {0, 1}) @@ (xfixes :> {0})

Has(event, error) ==
  [present |-> TRUE, first_event |-> event, first_error |-> error]
Lacks == [present |-> FALSE, first_event |-> 0, first_error |-> 0]

MCServers == {
  (render :> Has(4, 8)) @@ (xfixes :> Has(6, 10)),    \* room for everything
  (render :> Has(5, 11)) @@ (xfixes :> Has(4, 10)),   \* the other way round
  (render :> Has(4, 8)) @@ (xfixes :> Lacks),         \* an extension less
  (render :> Has(4, 8)) @@ (xfixes :> Has(5, 9)),     \* an older render
  (render :> Has(4, 8)) @@ (xfixes :> Has(4, 8)),     \* two keys of one name
  (render :> Has(4, 8)) @@ (xfixes :> Has(6, 15)) }   \* the last error code
=============================================================================
