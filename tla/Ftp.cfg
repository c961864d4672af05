CONSTANTS
  Names = {"ftp", "alice", "root", "mallory"}
  Guest = "ftp"
  Known = {"ftp", "alice", "root"}
  Denied = {"root"}
  Chrooted = {}
  Rfc2577 = TRUE
  AnonOnly = FALSE
  Attempts = 1
  Fds = {3, 4}
  MaxOwed = 1
SPECIFICATION AllSpec
INVARIANTS OnlyApprovedLogIn InStep NothingStale NoReplyLeft AskedToGoOn RightFile
PROPERTY SessionsGoOn
CHECK_DEADLOCK FALSE
