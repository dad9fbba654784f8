---------------------------- MODULE MCLogRecord ----------------------------
(* LogRecord with every format of a few tokens and one operation per case. *)
EXTENDS LogRecord

MCTokens  == {"action", "reqpid", "tid", "uid", "gid", "username", "size", "text"}
MCFormats == UNION {[1 .. n -> MCTokens] : n \in 0 .. 3}
                \cup {<<"action", "abspath", "text", "errno", "text", "reqpid">>,
                      <<"relfrom", "relto", "mode", "seconds", "cmdname">>}
MCTexts == {"newline", "space", "brace", "pidis", "uidis", "bracket", "text"}
MCOps == {"chown", "getxattr", "read", "mknod", "rename", "mkdir", "utime", "utimens", "open",
          "truncate", "setxattr", "listxattr", "fallocate", "unlink"}
=============================================================================
