------------------------------ MODULE MCBtVendor ------------------------------
(* Every rtkbt_stack.conf the image may hold, as far as the snoop keys go. *)
EXTENDS BtVendorLib

MCStackConfs == [present : BOOLEAN, dump : BOOLEAN, netDump : BOOLEAN, saveLog : BOOLEAN]
=============================================================================
