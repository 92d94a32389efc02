------------------------------ MODULE MCWatcher ------------------------------
(* Small instances of SftpWatcher: a TIFF and another file.                *)
EXTENDS SftpWatcher, TLC

MCName    == {"a.tif", "notes.txt"}
MCTiff    == {"a.tif"}
MCStem    == ("a.tif" :> "a") @@ ("notes.txt" :> "notes")
=============================================================================
