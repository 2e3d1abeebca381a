---------------------------- MODULE MCExtraction ----------------------------
(***************************************************************************)
(* Extraction on small sets of files and directories.  Without unshield an *)
(* InstallShield file meets a missing tool; its loop is that of 7-Zip.     *)
(***************************************************************************)
EXTENDS Extraction

AllTools == {"7z", "unshield", "unsquashfs"}
NoUnshield == {"7z", "unsquashfs"}
=============================================================================
