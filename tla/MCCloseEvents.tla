--------------------------- MODULE MCCloseEvents ----------------------------
(***************************************************************************)
(* One transport, one producer and one consumer with the callbacks that    *)
(* the code registers for each.                                            *)
(***************************************************************************)
EXTENDS CloseEvents

MCResource == {"transport", "producer", "consumer"}

MCCallback == {"on_close", "on_router_close", "on_transport_close", "on_producer_close"}

MCCallbacksOf ==
  [transport |-> {"on_close", "on_router_close"},
   producer  |-> {"on_close", "on_transport_close"},
   consumer  |-> {"on_close", "on_transport_close", "on_producer_close"}]
=============================================================================
