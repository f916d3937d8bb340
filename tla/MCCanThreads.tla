---------------------------- MODULE MCCanThreads ----------------------------
(* Small instances of CanThreads for TLC.                                  *)
EXTENDS CanThreads

(* CAN_MAILBOX_TO_MASK(1): FIFO 0 became non-empty.                        *)
MailboxFlags == {"mailbox1"}
=============================================================================
