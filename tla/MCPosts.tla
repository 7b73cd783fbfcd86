------------------------------ MODULE MCPosts ------------------------------
(* Small instances of WSPosts: MCPosts for safety and liveness, MCPostsStop *)
(* for what Stop promises a running Run.                                    *)
EXTENDS WSPosts
=============================================================================
