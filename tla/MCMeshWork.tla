------------------------------ MODULE MCMeshWork ------------------------------
EXTENDS MeshWork

\* Distant collision, near work that is to be drawn, and near work for both.
MeshDemands ==
    {<<{"collision"}, 0>>, <<{"visual"}, 2>>, <<{"visual", "collision"}, 2>>}
=============================================================================
