----------------------------- MODULE MCPipeline -----------------------------
EXTENDS Pipeline
H(id, rank, cosine) == [id |-> id, rank |-> rank, cosine |-> cosine]
MCFound == {<<>>, <<H(1, 0, 0), H(2, 2, 80), H(3, 1, 95)>>, <<H(3, 3, 98), H(1, 1, 88), H(2, 2, 90)>>,
            <<H(2, 1, 96), H(1, 2, 95)>>}
MCReply == {<<>>, <<4, 2, 2>>, <<3, 1, 2>>}
MCDraft == {<< <<<<"E", 1>>, <<"E", 9>>>>, <<<<"M", 2>>>> >>}
MCPoints == [p \in Paper |-> IF p = 2 THEN <<>> ELSE <<1, 2, 3>>]
=============================================================================
