--------------------------- MODULE MCAttachDaemon ---------------------------
(* The attach daemon on a small machine. *)
EXTENDS AttachDaemon

AllEvents == {"restart", "drop", "error", "serverDown", "withdraw", "foreign",
              "detachFails", "attachFails", "statusFails", "detachAll"}

\* Nobody else uses vhci, its status can be read and `usbip` works; the daemon
\* may be stopped and ports detached at any time.
OwnEvents == {"restart", "drop", "error", "serverDown", "withdraw", "detachAll"}

TwoPorts == {0, 1}
=============================================================================
