----------------------------- MODULE MCFileSystem -----------------------------
(* FileSystem for TLC: names a and b, directories one level deep. *)
EXTENDS WalkedFileSystem

C(call, path) == [call |-> call, path |-> path, new |-> path]
MCCalls == {C("create", <<"a", "b">>), C("mkdir", <<"a">>), C("open", <<"b">>),
            C("unlink", <<"a">>), C("unlink", <<"b">>), C("unlink", <<"a", "b">>),
            [call |-> "link", path |-> <<"a", "b">>, new |-> <<"b">>],
            [call |-> "link", path |-> <<"b">>, new |-> <<"a", "b">>]}
=============================================================================
