---------------------------- MODULE MCAttachments ----------------------------
(* Small instances of Attachments. One cleaner beside one request is enough *)
(* for an upload, a download and a removal to meet a second removal.        *)
EXTENDS Attachments

=============================================================================
