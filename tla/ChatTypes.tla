------------------------------ MODULE ChatTypes -------------------------------
(***************************************************************************)
(* The values the modules of the chat server share.                        *)
(***************************************************************************)
CONSTANTS Addr,     \* addresses (SocketAddr) clients connect from
          User,     \* user names, in lower case
          Channel   \* channel names, in lower case
=============================================================================
