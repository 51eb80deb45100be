-------------------------------- MODULE Delivery --------------------------------
(***************************************************************************)
(* What a download task promises, "client_client_comms: download files":   *)
(* at some moment the file is there, complete and intact, and from then on *)
(* it stays as it is.                                                      *)
(***************************************************************************)
CONSTANTS Wanted,    \* the file as the sharing clients hold it
          NotSaved   \* the output file has not been written yet

VARIABLE file

Init == file = NotSaved

Save == file = NotSaved /\ file' = Wanted

Spec == Init /\ [][Save]_file

================================================================================
