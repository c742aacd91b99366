------------------------------- MODULE MCL4fs -------------------------------
(***************************************************************************)
(* Small instances of L4fs.                                                *)
(***************************************************************************)
EXTENDS L4fsRefinement, TLC

CONSTANTS a, b, long, i1, i2, r, x, y

NoIovs     == {}
TwoBuffers == {<<<<x>>, <<y>>>>}
MCIovs     == {<<>>, <<<<x>>, <<y>>>>, <<<<x, y, x>>>>}

CreateFlags == {{}, {"O_CREAT"}, {"O_CREAT", "O_EXCL"}, {"O_TRUNC"}, {"O_DIRECTORY"}}
PairFlags   == {{"O_CREAT"}}

AllCalls == {"mount", "get_entry", "mkdir", "rmdir", "unlink", "rename", "link",
             "symlink", "fstat64", "fsync", "readlink", "ftruncate64", "data_space",
             "close", "drop", "preadv", "pwritev"}
DataCalls   == {"mount", "get_entry", "drop", "pwritev", "preadv"}
HandleCalls == {"mount", "get_entry", "unlink", "close", "drop"}
=============================================================================
